---- MODULE Spec2Model ----
(***************************************************************************)
(* A model of bpfvv: the verifier-log line parser (src/parser.ts), the     *)
(* machine-state simulator, the dependency resolver and the loaders        *)
(* (src/app.ts).  Text is modelled as TLA+ strings, parsed character by    *)
(* character as the regular expressions of the source consume it.          *)
(***************************************************************************)
EXTENDS Integers, Sequences, FiniteSets, TLC

(***************************************************************************)
(* Strings                                                                 *)
(***************************************************************************)
Min(S) == CHOOSE x \in S : \A y \in S : x <= y

Ch(str, i) == SubSeq(str, i, i)

\* JavaScript's str.substring(from) and str.substring(from, to), 0-based.
Drop(str, n) == IF n >= Len(str) THEN "" ELSE SubSeq(str, n + 1, Len(str))

Substring(str, from, to) == IF to <= from THEN "" ELSE SubSeq(str, from + 1, to)

startsWith(str, toMatch) ==
    /\ Len(str) >= Len(toMatch)
    /\ SubSeq(str, 1, Len(toMatch)) = toMatch

endsWith(str, suffix) ==
    /\ Len(str) >= Len(suffix)
    /\ Drop(str, Len(str) - Len(suffix)) = suffix

\* str.indexOf(c) for a one-character c: 0-based, -1 when absent.
indexOf(str, c) ==
    LET hits == {i \in 1..Len(str) : Ch(str, i) = c}
    IN  IF hits = {} THEN -1 ELSE Min(hits) - 1

\* The length of the longest prefix of str made of characters of chars.
SpanLen(str, chars) ==
    LET bad == {i \in 1..Len(str) : Ch(str, i) \notin chars}
    IN  IF bad = {} THEN Len(str) ELSE Min(bad) - 1

Digits == {"0", "1", "2", "3", "4", "5", "6", "7", "8", "9"}
HexDigits == Digits \cup {"a", "b", "c", "d", "e", "f"}
LowerLetters ==
    {"a", "b", "c", "d", "e", "f", "g", "h", "i", "j", "k", "l", "m",
     "n", "o", "p", "q", "r", "s", "t", "u", "v", "w", "x", "y", "z"}
UpperLetters ==
    {"A", "B", "C", "D", "E", "F", "G", "H", "I", "J", "K", "L", "M",
     "N", "O", "P", "Q", "R", "S", "T", "U", "V", "W", "X", "Y", "Z"}
CallTargetChars == Digits \cup LowerLetters \cup {"_", "#", "+", "-"}
Whitespace == {" ", "\t", "\n", "\r", "\f"}

DigitSeq == <<"0", "1", "2", "3", "4", "5", "6", "7", "8", "9",
              "a", "b", "c", "d", "e", "f">>

DigitVal(c) == (CHOOSE i \in 1..16 : DigitSeq[i] = c) - 1

RECURSIVE NatOfDigits(_)
NatOfDigits(str) ==
    IF str = "" THEN 0
    ELSE 10 * NatOfDigits(SubSeq(str, 1, Len(str) - 1)) + DigitVal(Ch(str, Len(str)))

\* parseInt(str, 10) on a digit string with an optional sign.
parseInt(str) ==
    IF startsWith(str, "-") THEN 0 - NatOfDigits(Drop(str, 1))
    ELSE IF startsWith(str, "+") THEN NatOfDigits(Drop(str, 1))
    ELSE NatOfDigits(str)

RECURSIVE NatToString(_)
NatToString(n) ==
    IF n < 10 THEN DigitSeq[n + 1]
    ELSE NatToString(n \div 10) \o DigitSeq[(n % 10) + 1]

\* String(n) for an integer n, as in 'fp' + offset.
NumberToString(n) == IF n < 0 THEN "-" \o NatToString(0 - n) ELSE NatToString(n)

toLowerCase(str) ==
    LET lower(c) ==
            IF c \in UpperLetters
            THEN CHOOSE l \in LowerLetters :
                    \E k \in 1..26 :
                        /\ Ch("ABCDEFGHIJKLMNOPQRSTUVWXYZ", k) = c
                        /\ Ch("abcdefghijklmnopqrstuvwxyz", k) = l
            ELSE c
        RECURSIVE go(_)
        go(s) == IF s = "" THEN "" ELSE lower(Ch(s, 1)) \o go(Drop(s, 1))
    IN  go(str)

\* str.split('\n')
RECURSIVE split(_)
split(str) ==
    LET k == indexOf(str, "\n")
    IN  IF k = -1 THEN <<str>>
        ELSE <<Substring(str, 0, k)>> \o split(Drop(str, k + 1))

(***************************************************************************)
(* src/parser.ts: regular expressions.  Each matcher returns whether the   *)
(* expression matches at the start of str, the length of the match and its *)
(* capture groups.                                                         *)
(***************************************************************************)
NoMatch == [ok |-> FALSE, len |-> 0, g1 |-> "", g2 |-> "", g3 |-> ""]

Matched(n, a, b, c) == [ok |-> TRUE, len |-> n, g1 |-> a, g2 |-> b, g3 |-> c]

\* /^\s+/
RE_WHITESPACE(str) ==
    LET n == SpanLen(str, Whitespace)
    IN  IF n >= 1 THEN Matched(n, "", "", "") ELSE NoMatch

\* /^([0-9]+):/
RE_PROGRAM_COUNTER(str) ==
    LET n == SpanLen(str, Digits)
    IN  IF n >= 1 /\ Len(str) > n /\ Ch(str, n + 1) = ":"
        THEN Matched(n + 1, SubSeq(str, 1, n), "", "")
        ELSE NoMatch

\* /^\(([0-9a-f][0-9a-f])\)/
RE_BPF_OPCODE(str) ==
    IF /\ Len(str) >= 4
       /\ Ch(str, 1) = "("
       /\ Ch(str, 2) \in HexDigits
       /\ Ch(str, 3) \in HexDigits
       /\ Ch(str, 4) = ")"
    THEN Matched(4, SubSeq(str, 2, 3), "", "")
    ELSE NoMatch

\* /^(r10|r[0-9]|w[0-9])/
RE_REGISTER(str) ==
    IF startsWith(str, "r10") THEN Matched(3, "r10", "", "")
    ELSE IF Len(str) >= 2 /\ Ch(str, 1) \in {"r", "w"} /\ Ch(str, 2) \in Digits
    THEN Matched(2, SubSeq(str, 1, 2), "", "")
    ELSE NoMatch

\* /^\*\((u8|u16|u32|u64) \*\)\((r10|r[0-9]) ([+-][0-9]+)\)/
RE_MEMORY_REF(str) ==
    LET widths == {w \in {"u8", "u16", "u32", "u64"} : startsWith(str, "*(" \o w \o " *)(")}
        w      == CHOOSE w \in widths : TRUE
        s1     == Drop(str, Len(w) + 6)
        regs   == {r \in {"r10"} \cup {"r" \o d : d \in Digits} : startsWith(s1, r \o " ")}
        reg    == CHOOSE r \in regs : TRUE
        s2     == Drop(s1, Len(reg) + 1)
        n      == SpanLen(Drop(s2, 1), Digits)
    IN  IF /\ widths # {}
           /\ regs # {}
           /\ Len(s2) >= 1
           /\ Ch(s2, 1) \in {"+", "-"}
           /\ n >= 1
           /\ Len(s2) > n + 1
           /\ Ch(s2, n + 2) = ")"
        THEN Matched(Len(w) + 6 + Len(reg) + 1 + n + 2, w, reg, SubSeq(s2, 1, n + 1))
        ELSE NoMatch

\* /^(0x[0-9a-f]+|[+-]?[0-9]+)/
RE_IMM_VALUE(str) ==
    LET hex  == SpanLen(Drop(str, 2), HexDigits)
        sign == IF Len(str) >= 1 /\ Ch(str, 1) \in {"+", "-"} THEN 1 ELSE 0
        dec  == SpanLen(Drop(str, sign), Digits)
    IN  IF startsWith(str, "0x") /\ hex >= 1
        THEN Matched(2 + hex, SubSeq(str, 1, 2 + hex), "", "")
        ELSE IF dec >= 1
        THEN Matched(sign + dec, SubSeq(str, 1, sign + dec), "", "")
        ELSE NoMatch

\* /^call ([0-9a-z_#+-]+)/
RE_CALL_TARGET(str) ==
    LET n == SpanLen(Drop(str, 5), CallTargetChars)
    IN  IF startsWith(str, "call ") /\ n >= 1
        THEN Matched(5 + n, SubSeq(str, 6, 5 + n), "", "")
        ELSE NoMatch

\* /^goto (pc[+-][0-9]+)/
RE_JMP_TARGET(str) ==
    LET n == SpanLen(Drop(str, 8), Digits)
    IN  IF /\ startsWith(str, "goto pc")
           /\ Len(str) >= 8
           /\ Ch(str, 8) \in {"+", "-"}
           /\ n >= 1
        THEN Matched(8 + n, SubSeq(str, 6, 8 + n), "", "")
        ELSE NoMatch

\* /^frame([0-9]+): /
RE_FRAME_ID(str) ==
    LET n == SpanLen(Drop(str, 5), Digits)
    IN  IF startsWith(str, "frame") /\ n >= 1 /\ startsWith(Drop(str, 5 + n), ": ")
        THEN Matched(5 + n + 2, SubSeq(str, 6, 5 + n), "", "")
        ELSE NoMatch

BPF_ALU_OPERATORS ==
    <<"=", "+=", "-=", "*=", "/=", "%=", "&=", "|=", "^=", "<<=", ">>=", "s>>=", "s<<=">>

BPF_COND_OPERATORS ==
    <<"==", "!=", "<", "<=", ">", ">=", "s<", "s<=", "s>", "s>=">>

BPF_SCRATCH_REGS == <<"r1", "r2", "r3", "r4", "r5">>

BPF_CALLEE_SAVED_REGS == <<"r6", "r7", "r8", "r9">>

\* consumeRegex applied to one of the matchers above
consumeRegex(m, str) == [match |-> m, rest |-> IF m.ok THEN Drop(str, m.len) ELSE str]

consumeString(toMatch, str) ==
    LET match == startsWith(str, toMatch)
    IN  [match |-> match, rest |-> IF match THEN Drop(str, Len(toMatch)) ELSE str]

consumeSpaces(str) ==
    LET m == RE_WHITESPACE(str)
    IN  IF m.ok THEN Drop(str, m.len) ELSE str

\* The for loops over an operator table: the first entry, in table order,
\* that prefixes rest ("" when none does).
FirstOperator(table, rest) ==
    LET hits == {k \in 1..Len(table) : startsWith(rest, table[k])}
    IN  IF hits = {} THEN "" ELSE table[Min(hits)]

(***************************************************************************)
(* src/parser.ts: operands                                                 *)
(***************************************************************************)
NoLocation == [present |-> FALSE, offset |-> 0, size |-> 0]

Location(offset, size) == [present |-> TRUE, offset |-> offset, size |-> size]

NoMemref == [present |-> FALSE, address_reg |-> "", offset |-> 0]

\* the null returned where no operand matched
NullOp ==
    [isNull |-> TRUE, type |-> "UNKNOWN", id |-> "", size |-> 0,
     memref |-> NoMemref, location |-> NoLocation]

Operand(type, id, size, memref) ==
    [isNull |-> FALSE, type |-> type, id |-> id, size |-> size,
     memref |-> memref, location |-> NoLocation]

CAST_TO_SIZE(cast) ==
    CASE cast = "u8"  -> 1
      [] cast = "u16" -> 2
      [] cast = "u32" -> 4
      [] cast = "u64" -> 8

registerOp(reg) ==
    IF startsWith(reg, "w")
    THEN Operand("REG", "r" \o Drop(reg, 1), 4, NoMemref)
    ELSE Operand("REG", reg, 8, NoMemref)

immOp(imm) == Operand("IMM", "IMM", 8, NoMemref)

Memref(address_reg, offset) ==
    [present |-> TRUE, address_reg |-> address_reg, offset |-> offset]

\* a memoryOp whose stack identifier also depends on the access width
memoryOp_sized(size, address_reg, offset) ==
    IF address_reg = "r10"
    THEN Operand("FP", "fp" \o NumberToString(offset) \o "/" \o NumberToString(size), size,
                 Memref(address_reg, offset))
    ELSE Operand("MEM", "MEM", size, Memref(address_reg, offset))

\* parseMemoryRef after a match: the operand built from size, address_reg
\* and offset
memoryOp(size, address_reg, offset) ==
    IF address_reg = "r10"
    THEN Operand("FP", "fp" \o NumberToString(offset), size, Memref(address_reg, offset))
    ELSE Operand("MEM", "MEM", size, Memref(address_reg, offset))

\* parseMemoryRef, c being consumeRegex(RE_MEMORY_REF, str)
parseMemoryRef_match(c) ==
    IF ~c.match.ok THEN [op |-> NullOp, rest |-> c.rest]
    ELSE [op |-> memoryOp(CAST_TO_SIZE(c.match.g1), c.match.g2, parseInt(c.match.g3)),
          rest |-> c.rest]

parseMemoryRef(str) == parseMemoryRef_match(consumeRegex(RE_MEMORY_REF(str), str))

\* parseAluDst from `let memref = parseMemoryRef(rest)` on
parseAluDst_memref(memref, rest) ==
    IF ~memref.op.isNull THEN memref ELSE [op |-> NullOp, rest |-> rest]

\* parseAluDst, c being consumeRegex(RE_REGISTER, str)
parseAluDst_match(c) ==
    IF c.match.ok THEN [op |-> registerOp(c.match.g1), rest |-> c.rest]
    ELSE parseAluDst_memref(parseMemoryRef(c.rest), c.rest)

parseAluDst(str) == parseAluDst_match(consumeRegex(RE_REGISTER(str), str))

\* parseAluSrc from `let imm = consumeRegex(RE_IMM_VALUE, str)` on
parseAluSrc_imm(imm, rest) ==
    IF imm.match.ok THEN [op |-> immOp(imm.match.g1), rest |-> imm.rest]
    ELSE [op |-> NullOp, rest |-> rest]

\* parseAluSrc from `let memref = parseMemoryRef(rest)` on
parseAluSrc_memref(memref, str, rest) ==
    IF ~memref.op.isNull THEN memref
    ELSE parseAluSrc_imm(consumeRegex(RE_IMM_VALUE(str), str), rest)

\* parseAluSrc, c being consumeRegex(RE_REGISTER, str)
parseAluSrc_match(c, str) ==
    IF c.match.ok THEN [op |-> registerOp(c.match.g1), rest |-> c.rest]
    ELSE parseAluSrc_memref(parseMemoryRef(c.rest), str, c.rest)

parseAluSrc(str) == parseAluSrc_match(consumeRegex(RE_REGISTER(str), str), str)

\* parseCondOp, c being consumeRegex(RE_REGISTER, str)
parseCondOp_match(c, str) ==
    IF c.match.ok THEN [op |-> registerOp(c.match.g1), rest |-> c.rest]
    ELSE parseAluSrc_imm(consumeRegex(RE_IMM_VALUE(str), str), c.rest)

parseCondOp(str) == parseCondOp_match(consumeRegex(RE_REGISTER(str), str), str)

\* a location whose span starts where the operand ends
WithLocation_ahead(op, rest, after) ==
    [op EXCEPT !.location = Location(0 - Len(after), Len(rest) - Len(after))]

\* op.location = { offset: -rest.length, size: rest.length - after.length }
WithLocation(op, rest, after) ==
    [op EXCEPT !.location = Location(0 - Len(rest), Len(rest) - Len(after))]

\* a collectReads without the address registers: a load from memory reads
\* the memory slot alone
collectReads_slotOnly(operator, dst, src) ==
    (IF operator # "=" THEN <<dst.id>> ELSE <<>>)
    \o (IF src.type # "IMM" THEN <<src.id>> ELSE <<>>)

collectReads(operator, dst, src) ==
    (IF operator # "=" THEN <<dst.id>> ELSE <<>>)
    \o (IF src.type = "MEM" THEN <<src.memref.address_reg>> ELSE <<>>)
    \o (IF dst.type = "MEM" THEN <<dst.memref.address_reg>> ELSE <<>>)
    \o (IF src.type # "IMM" THEN <<src.id>> ELSE <<>>)

(***************************************************************************)
(* src/parser.ts: instructions                                             *)
(***************************************************************************)
NoCond == [present |-> FALSE, left |-> NullOp, op |-> "", right |-> NullOp]

NoJmp == [present |-> FALSE, target |-> "", kind |-> "undefined", cond |-> NoCond]

NoAlu == [present |-> FALSE, operator |-> "", dst |-> NullOp, src |-> NullOp]

NoOpcode == [code |-> -1, iclass |-> -1, source |-> ""]

\* the null returned where no instruction matched
NullIns ==
    [isNull |-> TRUE, pc |-> -1, opcode |-> NoOpcode, reads |-> <<>>, writes |-> <<>>,
     jmp |-> NoJmp, alu |-> NoAlu, location |-> NoLocation]

\* an instruction as the parse functions build it; pc is undefined (-1) until
\* parseOpcodeIns sets it
Instruction(opcode, reads, writes, jmp, alu, location) ==
    [isNull |-> FALSE, pc |-> -1, opcode |-> opcode, reads |-> reads, writes |-> writes,
     jmp |-> jmp, alu |-> alu, location |-> location]

Jmp(target, kind, cond) == [present |-> TRUE, target |-> target, kind |-> kind, cond |-> cond]

\* BpfJmpCode
JA == 0
JEQ == 1
JGT == 2
JGE == 3
JSET == 5
JSGT == 6
JSGE == 7
CALL == 8
EXIT == 9

parseOpcodeHex(opcodeHex) ==
    LET code   == DigitVal(Ch(opcodeHex, 1))
        sclass == DigitVal(Ch(opcodeHex, 2))
    IN  [code |-> code, iclass |-> sclass % 8,
         source |-> IF sclass \div 8 = 1 THEN "X" ELSE "K"]

\* parseAluInstruction: the instruction built at the end
parseAluInstruction_ins(opcode, operator, dst, src, rest) ==
    [ins |-> Instruction(opcode, collectReads(operator, dst, src), <<dst.id>>,
                         NoJmp,
                         [present |-> TRUE, operator |-> operator, dst |-> dst, src |-> src],
                         NoLocation),
     rest |-> rest]

\* parseAluInstruction, _src being parseAluSrc(rest)
parseAluInstruction_src(str, opcode, operator, dst, rest, _src) ==
    IF _src.op.isNull THEN [ins |-> NullIns, rest |-> str]
    ELSE parseAluInstruction_ins(opcode, operator, dst,
                                 WithLocation(_src.op, rest, _src.rest),
                                 consumeSpaces(_src.rest))

\* parseAluInstruction after the loop over BPF_ALU_OPERATORS; rest is the
\* text after the operator and the spaces that follow it
parseAluInstruction_operator(str, opcode, operator, dst, rest) ==
    IF operator = "" THEN [ins |-> NullIns, rest |-> str]
    ELSE parseAluInstruction_src(str, opcode, operator, dst, rest, parseAluSrc(rest))

\* parseAluInstruction from the loop over BPF_ALU_OPERATORS on
parseAluInstruction_rest(str, opcode, dst, rest, operator) ==
    parseAluInstruction_operator(str, opcode, operator, dst,
                                 consumeSpaces(consumeString(operator, rest).rest))

\* parseAluInstruction, _dst being parseAluDst(str)
parseAluInstruction_dst(str, opcode, _dst, rest) ==
    IF _dst.op.isNull THEN [ins |-> NullIns, rest |-> str]
    ELSE parseAluInstruction_rest(str, opcode, WithLocation(_dst.op, str, _dst.rest),
                                  rest, FirstOperator(BPF_ALU_OPERATORS, rest))

parseAluInstruction_parsed(str, opcode, _dst) ==
    parseAluInstruction_dst(str, opcode, _dst, consumeSpaces(_dst.rest))

parseAluInstruction(str, opcode) == parseAluInstruction_parsed(str, opcode, parseAluDst(str))

helperCall(opcode, target) ==
    Instruction(opcode, BPF_SCRATCH_REGS, <<"r0">> \o BPF_SCRATCH_REGS,
                Jmp(target, "HELPER_CALL", NoCond), NoAlu, NoLocation)

\* a subprogram call given the writes-set of a helper call
bpf2bpfCall_scratch(opcode, target) ==
    Instruction(opcode, BPF_SCRATCH_REGS, <<"r0">> \o BPF_SCRATCH_REGS,
                Jmp(target, "BPF2BPF_CALL", NoCond), NoAlu, NoLocation)

bpf2bpfCall(opcode, target) ==
    Instruction(opcode, BPF_SCRATCH_REGS, <<"r0">> \o BPF_CALLEE_SAVED_REGS,
                Jmp(target, "BPF2BPF_CALL", NoCond), NoAlu, NoLocation)

\* parseCall, c being consumeRegex(RE_CALL_TARGET, str)
parseCall_match(str, opcode, c) ==
    IF ~c.match.ok THEN [ins |-> NullIns, rest |-> str]
    ELSE [ins |-> [(IF startsWith(c.match.g1, "pc+") \/ startsWith(c.match.g1, "pc-")
                    THEN bpf2bpfCall(opcode, c.match.g1)
                    ELSE helperCall(opcode, c.match.g1))
                   EXCEPT !.location = Location(0 - Len(str), c.match.len)],
          rest |-> c.rest]

parseCall(str, opcode) == parseCall_match(str, opcode, consumeRegex(RE_CALL_TARGET(str), str))

\* parseConditionalJmp, jmpTarget being consumeRegex(RE_JMP_TARGET, ...)
parseConditionalJmp_target(str, opcode, left, operator, right, jmpTarget) ==
    IF ~jmpTarget.match.ok THEN [ins |-> NullIns, rest |-> str]
    ELSE [ins |-> Instruction(opcode, <<left.id, right.id>>, <<>>,
                              Jmp(jmpTarget.match.g1, "CONDITIONAL_GOTO",
                                  [present |-> TRUE, left |-> left,
                                   op |-> operator, right |-> right]),
                              NoAlu, NoLocation),
          rest |-> consumeSpaces(jmpTarget.rest)]

\* parseConditionalJmp from `let jmpTarget = ...` on; rest is
\* consumeSpaces(consumeSpaces(rightOp.rest))
parseConditionalJmp_jmp(str, opcode, left, operator, right, rest) ==
    parseConditionalJmp_target(str, opcode, left, operator, right,
                               consumeRegex(RE_JMP_TARGET(rest), rest))

\* parseConditionalJmp, rightOp being parseCondOp(rest)
parseConditionalJmp_right(str, opcode, left, operator, rest, rightOp) ==
    IF rightOp.op.isNull THEN [ins |-> NullIns, rest |-> str]
    ELSE parseConditionalJmp_jmp(str, opcode, left, operator,
                                 WithLocation(rightOp.op, rest, rightOp.rest),
                                 consumeSpaces(consumeSpaces(rightOp.rest)))

\* parseConditionalJmp after the loop over BPF_COND_OPERATORS; rest is the
\* text after the operator and the spaces that follow it
parseConditionalJmp_operator(str, opcode, left, operator, rest) ==
    IF operator = "" THEN [ins |-> NullIns, rest |-> str]
    ELSE parseConditionalJmp_right(str, opcode, left, operator, rest, parseCondOp(rest))

\* parseConditionalJmp from the loop over BPF_COND_OPERATORS on
parseConditionalJmp_rest(str, opcode, left, rest, operator) ==
    parseConditionalJmp_operator(str, opcode, left, operator,
                                 consumeSpaces(consumeString(operator, rest).rest))

\* parseConditionalJmp, leftOp being parseCondOp(rest)
parseConditionalJmp_left(str, opcode, rest, leftOp, rest1) ==
    IF leftOp.op.isNull THEN [ins |-> NullIns, rest |-> str]
    ELSE parseConditionalJmp_rest(str, opcode, WithLocation(leftOp.op, rest, leftOp.rest),
                                  rest1, FirstOperator(BPF_COND_OPERATORS, rest1))

parseConditionalJmp_parsed(str, opcode, rest, leftOp) ==
    parseConditionalJmp_left(str, opcode, rest, leftOp, consumeSpaces(leftOp.rest))

\* parseConditionalJmp, c being consumeString("if ", str)
parseConditionalJmp_if(str, opcode, c) ==
    IF ~c.match THEN [ins |-> NullIns, rest |-> str]
    ELSE parseConditionalJmp_parsed(str, opcode, c.rest, parseCondOp(c.rest))

parseConditionalJmp(str, opcode) == parseConditionalJmp_if(str, opcode, consumeString("if ", str))

\* parseUnconditionalJmp, c being consumeString("goto ", str) and target
\* consumeRegex(RE_JMP_TARGET, str)
parseUnconditionalJmp_match(str, opcode, c, target) ==
    IF ~c.match THEN [ins |-> NullIns, rest |-> str]
    ELSE IF ~target.match.ok THEN [ins |-> NullIns, rest |-> str]
    ELSE [ins |-> Instruction(opcode, <<>>, <<>>,
                              Jmp(target.match.g1, "UNCONDITIONAL_GOTO", NoCond),
                              NoAlu, NoLocation),
          rest |-> c.rest]

parseUnconditionalJmp(str, opcode) ==
    parseUnconditionalJmp_match(str, opcode, consumeString("goto ", str),
                                consumeRegex(RE_JMP_TARGET(str), str))

parseJmpInstruction(str, opcode) ==
    CASE opcode.code = CALL -> parseCall(str, opcode)
      [] opcode.code \in {JEQ, JGT, JGE, JSET, JSGT, JSGE} -> parseConditionalJmp(str, opcode)
      [] opcode.code = JA -> parseUnconditionalJmp(str, opcode)
      [] OTHER -> [ins |-> NullIns, rest |-> str]

\* BpfInstructionClass: LD 0, LDX 1, ST 2, STX 3, ALU 4, JMP 5, JMP32 6, ALU64 7
parseInstruction(str, opcode) ==
    CASE opcode.iclass \in {0, 1, 2, 3, 4, 7} -> parseAluInstruction(str, opcode)
      [] opcode.iclass \in {5, 6} -> parseJmpInstruction(str, opcode)
      [] OTHER -> [ins |-> NullIns, rest |-> str]

\* parseOpcodeIns, parsedIns being parseInstruction(...)
parseOpcodeIns_ins(parsedIns, pc) ==
    IF parsedIns.ins.isNull THEN parsedIns
    ELSE [ins |-> [parsedIns.ins EXCEPT !.pc = pc], rest |-> parsedIns.rest]

\* parseOpcodeIns, c being consumeRegex(RE_BPF_OPCODE, str)
parseOpcodeIns_match(str, pc, c) ==
    IF ~c.match.ok THEN [ins |-> NullIns, rest |-> str]
    ELSE parseOpcodeIns_ins(parseInstruction(consumeSpaces(c.rest),
                                             parseOpcodeHex(c.match.g1)), pc)

parseOpcodeIns(str, pc) == parseOpcodeIns_match(str, pc, consumeRegex(RE_BPF_OPCODE(str), str))

(***************************************************************************)
(* src/parser.ts: the state comment                                        *)
(***************************************************************************)
NullExpr == [isNull |-> TRUE, id |-> "", value |-> "", rawKey |-> "", frame |-> -1]

\* The while loop of parseBpfStateExpr: the index (0-based) of the first
\* space outside parentheses at or after i, or str.length.
RECURSIVE ScanValue(_, _, _)
ScanValue(str, i, depth) ==
    IF i >= Len(str) THEN i
    ELSE LET c  == Ch(str, i + 1)
             d1 == IF c = "(" THEN depth + 1 ELSE depth
         IN  IF c = ")" /\ d1 > 0 THEN ScanValue(str, i + 1, d1 - 1)
             ELSE IF c = " " /\ d1 = 0 THEN i
             ELSE ScanValue(str, i + 1, d1)

\* a parseBpfStateExpr that keeps the key as the identifier
parseBpfStateExpr_rawKey(str) ==
    LET equalsIndex == indexOf(str, "=")
        i   == ScanValue(str, equalsIndex + 1, 0)
    IN  IF equalsIndex = -1 THEN [expr |-> NullExpr, rest |-> str]
        ELSE [expr |-> [isNull |-> FALSE, id |-> Substring(str, 0, equalsIndex),
                        value |-> Substring(str, equalsIndex + 1, i),
                        rawKey |-> Substring(str, 0, equalsIndex), frame |-> -1],
              rest |-> Drop(str, i)]

parseBpfStateExpr(str) ==
    LET equalsIndex == indexOf(str, "=")
        key == Substring(str, 0, equalsIndex)
        id  == toLowerCase(IF endsWith(key, "_w")
                           THEN Substring(key, 0, Len(key) - 2) ELSE key)
        i   == ScanValue(str, equalsIndex + 1, 0)
    IN  IF equalsIndex = -1 THEN [expr |-> NullExpr, rest |-> str]
        ELSE [expr |-> [isNull |-> FALSE, id |-> id,
                        value |-> Substring(str, equalsIndex + 1, i),
                        rawKey |-> key, frame |-> -1],
              rest |-> Drop(str, i)]

\* The while loop of parseBpfStateExprs
RECURSIVE StateExprLoop(_, _, _)
StateExprLoop(rest, frameId, exprs) ==
    IF Len(rest) = 0 THEN [exprs |-> exprs, rest |-> rest]
    ELSE LET parsed == parseBpfStateExpr(rest)
             rest1  == consumeSpaces(parsed.rest)
         IN  IF parsed.expr.isNull THEN [exprs |-> exprs, rest |-> rest1]
             ELSE StateExprLoop(rest1, frameId,
                                Append(exprs, [parsed.expr EXCEPT !.frame = frameId]))

\* parseBpfStateExprs, frame being consumeRegex(RE_FRAME_ID, rest)
parseBpfStateExprs_frame(frame) ==
    IF frame.match.ok THEN StateExprLoop(frame.rest, parseInt(frame.match.g1), <<>>)
    ELSE StateExprLoop(frame.rest, 0, <<>>)

\* parseBpfStateExprs, c being consumeString("; ", str)
parseBpfStateExprs_match(str, c) ==
    IF ~c.match THEN [exprs |-> <<>>, rest |-> str]
    ELSE parseBpfStateExprs_frame(consumeRegex(RE_FRAME_ID(c.rest), c.rest))

parseBpfStateExprs(str) == parseBpfStateExprs_match(str, consumeString("; ", str))

(***************************************************************************)
(* src/parser.ts: parseLine.  idx is undefined (-1) until loadRawLine sets *)
(* it.                                                                     *)
(***************************************************************************)
\* parseLine from `if (ins)` on
parseLine_ins(rawLine, ins, rest) ==
    IF ~ins.isNull
    THEN [idx |-> -1, type |-> "INSTRUCTION", raw |-> rawLine, bpfIns |-> ins,
          bpfStateExprs |-> parseBpfStateExprs(rest).exprs]
    ELSE [idx |-> -1, type |-> "UNRECOGNIZED", raw |-> rawLine, bpfIns |-> NullIns,
          bpfStateExprs |-> <<>>]

\* parseLine, parsedIns being parseOpcodeIns(...)
parseLine_parsed(rawLine, parsedIns) ==
    parseLine_ins(rawLine, parsedIns.ins, consumeSpaces(parsedIns.rest))

\* parseLine, c being consumeRegex(RE_PROGRAM_COUNTER, rest)
parseLine_match(rawLine, c) ==
    IF c.match.ok
    THEN parseLine_parsed(rawLine, parseOpcodeIns(consumeSpaces(c.rest), parseInt(c.match.g1)))
    ELSE parseLine_ins(rawLine, NullIns, c.rest)

\* a parseLine that keeps the text it trimmed as the raw text
parseLine_trimmed(rawLine, rest) ==
    parseLine_match(rest, consumeRegex(RE_PROGRAM_COUNTER(rest), rest))

\* parseLine from `consumeRegex(RE_PROGRAM_COUNTER, rest)` on
parseLine_rest(rawLine, rest) ==
    parseLine_match(rawLine, consumeRegex(RE_PROGRAM_COUNTER(rest), rest))

parseLine(rawLine) == parseLine_rest(rawLine, consumeSpaces(rawLine))

(***************************************************************************)
(* src/app.ts: machine states.  A Map is a function on its key set.  A     *)
(* BpfState is an object: states live in a heap (a sequence, a reference   *)
(* is an index into it) so that sharing and in-place mutation are visible. *)
(***************************************************************************)
\* an undefined string (the value of `undefined?.value`)
UndefinedStr == "<undefined>"

\* an undefined number (a missing lastKnownWrites entry, an undefined idx)
Undefined == -1

\* JavaScript truthiness of a string value
Truthy(str) == str \notin {"", UndefinedStr}

\* a null entry of the values map, and what Map.get() gives for a missing key:
\* `?.value` and `?.effect` of both are undefined
NullValue == [isNull |-> TRUE, value |-> UndefinedStr, effect |-> "undefined"]

Value(value, effect) == [isNull |-> FALSE, value |-> value, effect |-> effect]

makeValue(value, effect) == Value(IF value = "fp0" THEN "fp-0" ELSE value, effect)

MapGet(m, k, default) == IF k \in DOMAIN m THEN m[k] ELSE default

MapSet(m, k, v) == [key \in DOMAIN m \cup {k} |-> IF key = k THEN v ELSE m[key]]

MapDelete(m, k) == [key \in DOMAIN m \ {k} |-> m[key]]

EmptyMap == [key \in {} |-> 0]

Range(seq) == {seq[i] : i \in 1..Len(seq)}

initialBpfState ==
    [values |-> [r \in {"r0", "r1", "r2", "r3", "r4", "r5", "r6", "r7", "r8", "r9", "r10"} |->
                    CASE r = "r1"  -> makeValue("ctx()", "NONE")
                      [] r = "r10" -> makeValue("fp0", "NONE")
                      [] OTHER     -> NullValue],
     lastKnownWrites |-> [r \in {"r1", "r10"} |-> 0],
     frame |-> 0,
     idx |-> 0,
     pc |-> 0]

copyBpfState(state) ==
    [values |-> [key \in {k \in DOMAIN state.values : Truthy(state.values[k].value)} |->
                    Value(state.values[key].value, "NONE")],
     lastKnownWrites |-> state.lastKnownWrites,
     frame |-> state.frame,
     idx |-> state.idx,
     pc |-> state.pc]

\* Map.set(keys[i], val(keys[i])) for i = 1, 2, ...
RECURSIVE SetAll(_, _, _)
SetAll(m, keys, val) ==
    IF keys = <<>> THEN m
    ELSE SetAll(MapSet(m, Head(keys), val[Head(keys)]), Tail(keys), val)

\* new BpfState objects are appended to the heap
Alloc(heap, state) == [heap |-> Append(heap, state), ref |-> Len(heap) + 1]

\* a pushStackFrame that saves the caller's state object itself, not a copy
pushStackFrame_shared(heap, saved, s) ==
    LET state   == heap[s]
        scratch == [r \in Range(BPF_SCRATCH_REGS) |->
                       [isNull |-> FALSE,
                        value |-> MapGet(state.values, r, NullValue).value,
                        effect |-> "READ"]]
        written == [r \in {"r0"} \cup Range(BPF_CALLEE_SAVED_REGS) |-> Value("", "WRITE")]
        values  == MapSet(SetAll(SetAll(EmptyMap, BPF_SCRATCH_REGS, scratch),
                                 <<"r0">> \o BPF_CALLEE_SAVED_REGS, written),
                          "r10", makeValue("fp0", "NONE"))
        lastKnownWrites ==
            [r \in Range(BPF_SCRATCH_REGS) |-> MapGet(state.lastKnownWrites, r, Undefined)]
        a2      == Alloc(heap, [values |-> values,
                                lastKnownWrites |-> lastKnownWrites,
                                frame |-> state.frame + 1,
                                idx |-> state.idx,
                                pc |-> state.pc])
    IN  [heap |-> a2.heap, saved |-> Append(saved, s), ref |-> a2.ref]

\* a pushStackFrame whose new frame starts from the caller's values
pushStackFrame_inherit(heap, saved, s) ==
    LET state   == heap[s]
        a1      == Alloc(heap, copyBpfState(state))
        scratch == [r \in Range(BPF_SCRATCH_REGS) |->
                       [isNull |-> FALSE,
                        value |-> MapGet(state.values, r, NullValue).value,
                        effect |-> "READ"]]
        written == [r \in {"r0"} \cup Range(BPF_CALLEE_SAVED_REGS) |-> Value("", "WRITE")]
        values  == MapSet(SetAll(SetAll(state.values, BPF_SCRATCH_REGS, scratch),
                                 <<"r0">> \o BPF_CALLEE_SAVED_REGS, written),
                          "r10", makeValue("fp0", "NONE"))
        a2      == Alloc(a1.heap, [values |-> values,
                                   lastKnownWrites |-> state.lastKnownWrites,
                                   frame |-> state.frame + 1,
                                   idx |-> state.idx,
                                   pc |-> state.pc])
    IN  [heap |-> a2.heap, saved |-> Append(saved, a1.ref), ref |-> a2.ref]

\* a pushStackFrame whose new state stays at the caller's frame depth
pushStackFrame_level(heap, saved, s) ==
    LET state   == heap[s]
        a1      == Alloc(heap, copyBpfState(state))
        scratch == [r \in Range(BPF_SCRATCH_REGS) |->
                       [isNull |-> FALSE,
                        value |-> MapGet(state.values, r, NullValue).value,
                        effect |-> "READ"]]
        written == [r \in {"r0"} \cup Range(BPF_CALLEE_SAVED_REGS) |-> Value("", "WRITE")]
        values  == MapSet(SetAll(SetAll(EmptyMap, BPF_SCRATCH_REGS, scratch),
                                 <<"r0">> \o BPF_CALLEE_SAVED_REGS, written),
                          "r10", makeValue("fp0", "NONE"))
        lastKnownWrites ==
            [r \in Range(BPF_SCRATCH_REGS) |-> MapGet(state.lastKnownWrites, r, Undefined)]
        a2      == Alloc(a1.heap, [values |-> values,
                                   lastKnownWrites |-> lastKnownWrites,
                                   frame |-> state.frame,
                                   idx |-> state.idx,
                                   pc |-> state.pc])
    IN  [heap |-> a2.heap, saved |-> Append(saved, a1.ref), ref |-> a2.ref]

\* pushStackFrame(state), state being the object at heap[s]
pushStackFrame(heap, saved, s) ==
    LET state   == heap[s]
        a1      == Alloc(heap, copyBpfState(state))
        scratch == [r \in Range(BPF_SCRATCH_REGS) |->
                       [isNull |-> FALSE,
                        value |-> MapGet(state.values, r, NullValue).value,
                        effect |-> "READ"]]
        written == [r \in {"r0"} \cup Range(BPF_CALLEE_SAVED_REGS) |-> Value("", "WRITE")]
        values  == MapSet(SetAll(SetAll(EmptyMap, BPF_SCRATCH_REGS, scratch),
                                 <<"r0">> \o BPF_CALLEE_SAVED_REGS, written),
                          "r10", makeValue("fp0", "NONE"))
        lastKnownWrites ==
            [r \in Range(BPF_SCRATCH_REGS) |-> MapGet(state.lastKnownWrites, r, Undefined)]
        a2      == Alloc(a1.heap, [values |-> values,
                                   lastKnownWrites |-> lastKnownWrites,
                                   frame |-> state.frame + 1,
                                   idx |-> state.idx,
                                   pc |-> state.pc])
    IN  [heap |-> a2.heap, saved |-> Append(saved, a1.ref), ref |-> a2.ref]

\* a popStackFrame that, with nothing saved, carries the exiting state on
popStackFrame_carry(heap, saved, s) ==
    LET exitingState == heap[s]
        ref     == saved[Len(saved)]
        state   == heap[ref]
        cleared == [r \in Range(BPF_SCRATCH_REGS) |-> Value("", "WRITE")]
        r0      == MapGet(exitingState.values, "r0", NullValue).value
        val     == IF Truthy(r0) THEN r0 ELSE ""
        values  == MapSet(SetAll(state.values, BPF_SCRATCH_REGS, cleared),
                          "r0", Value(val, "NONE"))
        lastKnownWrites ==
            MapSet([key \in DOMAIN state.lastKnownWrites \ Range(BPF_SCRATCH_REGS) |->
                       state.lastKnownWrites[key]],
                   "r0", MapGet(exitingState.lastKnownWrites, "r0", Undefined))
    IN  IF Len(saved) = 0
        THEN [heap |-> Append(heap, copyBpfState(exitingState)), saved |-> saved,
              ref |-> Len(heap) + 1]
        ELSE [heap |-> [heap EXCEPT ![ref] =
                           [state EXCEPT !.values = values,
                                         !.lastKnownWrites = lastKnownWrites]],
              saved |-> SubSeq(saved, 1, Len(saved) - 1),
              ref |-> ref]

\* a popStackFrame that leaves the scratch registers of the saved state
popStackFrame_keepScratch(heap, saved, s) ==
    LET exitingState == heap[s]
        fresh   == Alloc(heap, initialBpfState)
        ref     == saved[Len(saved)]
        state   == heap[ref]
        r0      == MapGet(exitingState.values, "r0", NullValue).value
        val     == IF Truthy(r0) THEN r0 ELSE ""
    IN  IF Len(saved) = 0
        THEN [heap |-> fresh.heap, saved |-> saved, ref |-> fresh.ref]
        ELSE [heap |-> [heap EXCEPT ![ref] =
                           [state EXCEPT
                               !.values = MapSet(state.values, "r0", Value(val, "NONE")),
                               !.lastKnownWrites =
                                   MapSet(state.lastKnownWrites, "r0",
                                          MapGet(exitingState.lastKnownWrites, "r0",
                                                 Undefined))]],
              saved |-> SubSeq(saved, 1, Len(saved) - 1),
              ref |-> ref]

\* popStackFrame(exitingState), exitingState being the object at heap[s]
popStackFrame(heap, saved, s) ==
    LET exitingState == heap[s]
        fresh   == Alloc(heap, initialBpfState)
        ref     == saved[Len(saved)]
        state   == heap[ref]
        cleared == [r \in Range(BPF_SCRATCH_REGS) |-> Value("", "WRITE")]
        r0      == MapGet(exitingState.values, "r0", NullValue).value
        val     == IF Truthy(r0) THEN r0 ELSE ""
        values  == MapSet(SetAll(state.values, BPF_SCRATCH_REGS, cleared),
                          "r0", Value(val, "NONE"))
        lastKnownWrites ==
            MapSet([key \in DOMAIN state.lastKnownWrites \ Range(BPF_SCRATCH_REGS) |->
                       state.lastKnownWrites[key]],
                   "r0", MapGet(exitingState.lastKnownWrites, "r0", Undefined))
    IN  IF Len(saved) = 0
        THEN [heap |-> fresh.heap, saved |-> saved, ref |-> fresh.ref]
        ELSE [heap |-> [heap EXCEPT ![ref] =
                           [state EXCEPT !.values = values,
                                         !.lastKnownWrites = lastKnownWrites]],
              saved |-> SubSeq(saved, 1, Len(saved) - 1),
              ref |-> ref]

\* the closure setIdxAndPc of nextBpfState, applied to the object at r.ref
setIdxAndPc(r, line) ==
    [r EXCEPT !.heap = [r.heap EXCEPT ![r.ref] =
                           [r.heap[r.ref] EXCEPT !.idx = line.idx, !.pc = line.bpfIns.pc]]]

\* the first loop of nextBpfState: effects.set(id, READ) for every read
RECURSIVE ReadEffects(_, _)
ReadEffects(effects, reads) ==
    IF reads = <<>> THEN effects
    ELSE ReadEffects(MapSet(effects, Head(reads), "READ"), Tail(reads))

\* a loop over the writes that leaves lastKnownWrites as it was
RECURSIVE ApplyWrites_unrecorded(_, _, _)
ApplyWrites_unrecorded(st, writes, idx) ==
    IF writes = <<>> THEN st
    ELSE LET id     == Head(writes)
             effect == IF id \in DOMAIN st.effects THEN "UPDATE" ELSE "WRITE"
         IN  ApplyWrites_unrecorded([effects |-> MapSet(st.effects, id, effect),
                                     values |-> MapSet(st.values, id, makeValue("", effect)),
                                     lastKnownWrites |-> st.lastKnownWrites],
                                    Tail(writes), idx)

\* the second loop of nextBpfState, over the writes; st is
\* [effects, values, lastKnownWrites]
RECURSIVE ApplyWrites(_, _, _)
ApplyWrites(st, writes, idx) ==
    IF writes = <<>> THEN st
    ELSE LET id     == Head(writes)
             effect == IF id \in DOMAIN st.effects THEN "UPDATE" ELSE "WRITE"
         IN  ApplyWrites([effects |-> MapSet(st.effects, id, effect),
                          values |-> MapSet(st.values, id, makeValue("", effect)),
                          lastKnownWrites |-> MapSet(st.lastKnownWrites, id, idx)],
                         Tail(writes), idx)

\* a loop over the reported values that leaves the placeholder of a written
\* slot in place
RECURSIVE ApplyExprs_placeholder(_, _, _)
ApplyExprs_placeholder(values, effects, exprs) ==
    IF exprs = <<>> THEN values
    ELSE LET expr == Head(exprs)
         IN  ApplyExprs_placeholder(
                 IF MapGet(effects, expr.id, "NONE") \in {"WRITE", "UPDATE"} THEN values
                 ELSE MapSet(values, expr.id,
                             makeValue(expr.value, MapGet(effects, expr.id, "NONE"))),
                 effects, Tail(exprs))

\* the third loop of nextBpfState: the verifier-reported values
RECURSIVE ApplyExprs(_, _, _)
ApplyExprs(values, effects, exprs) ==
    IF exprs = <<>> THEN values
    ELSE LET expr == Head(exprs)
         IN  ApplyExprs(MapSet(values, expr.id,
                               makeValue(expr.value, MapGet(effects, expr.id, "NONE"))),
                        effects, Tail(exprs))

\* a nextBpfState without the early return for lines that are no instruction
nextBpfState_always(heap, saved, s, line) ==
    LET copy   == copyBpfState(heap[s])
        st     == ApplyWrites([effects |-> ReadEffects(EmptyMap, line.bpfIns.reads),
                               values |-> copy.values,
                               lastKnownWrites |-> copy.lastKnownWrites],
                              line.bpfIns.writes, line.idx)
        values == ApplyExprs(st.values, st.effects, line.bpfStateExprs)
        new    == Alloc(heap, [copy EXCEPT !.values = values,
                                           !.lastKnownWrites = st.lastKnownWrites])
    IN  IF line.bpfIns.jmp.kind = "BPF2BPF_CALL"
        THEN setIdxAndPc(pushStackFrame(heap, saved, s), line)
        ELSE IF line.bpfIns.jmp.kind = "EXIT"
        THEN setIdxAndPc(popStackFrame(heap, saved, s), line)
        ELSE setIdxAndPc([heap |-> new.heap, saved |-> saved, ref |-> new.ref], line)

\* nextBpfState(state, line), state being the object at heap[s]; the result
\* is the new heap, the new SAVED_BPF_STATES and the reference returned
nextBpfState(heap, saved, s, line) ==
    LET copy   == copyBpfState(heap[s])
        st     == ApplyWrites([effects |-> ReadEffects(EmptyMap, line.bpfIns.reads),
                               values |-> copy.values,
                               lastKnownWrites |-> copy.lastKnownWrites],
                              line.bpfIns.writes, line.idx)
        values == ApplyExprs(st.values, st.effects, line.bpfStateExprs)
        new    == Alloc(heap, [copy EXCEPT !.values = values,
                                           !.lastKnownWrites = st.lastKnownWrites])
    IN  IF line.type # "INSTRUCTION" THEN [heap |-> heap, saved |-> saved, ref |-> s]
        ELSE IF line.bpfIns.jmp.kind = "BPF2BPF_CALL"
        THEN setIdxAndPc(pushStackFrame(heap, saved, s), line)
        ELSE IF line.bpfIns.jmp.kind = "EXIT"
        THEN setIdxAndPc(popStackFrame(heap, saved, s), line)
        ELSE setIdxAndPc([heap |-> new.heap, saved |-> saved, ref |-> new.ref], line)

\* mostRecentBpfState(state, idx): the BpfState found (by reference), or a
\* fresh initial state (fresh = TRUE, not yet in the heap)
mostRecentBpfState(heap, bpfStates, idx0) ==
    LET n      == Len(bpfStates)
        lower  == IF idx0 < n - 1 THEN idx0 ELSE n - 1
        idx    == IF lower > 0 THEN lower ELSE 0
    IN  IF n = 0
        THEN [fresh |-> TRUE, ref |-> 0, state |-> initialBpfState, idx |-> 0]
        ELSE [fresh |-> FALSE, ref |-> bpfStates[idx + 1],
              state |-> heap[bpfStates[idx + 1]], idx |-> idx]

(***************************************************************************)
(* src/app.ts: loading.  app is the AppState together with the heap and    *)
(* the module-level SAVED_BPF_STATES:                                      *)
(* [lines, bpfStates, heap, saved].                                        *)
(***************************************************************************)
EmptyApp == [lines |-> <<>>, bpfStates |-> <<>>, heap |-> <<>>, saved |-> <<>>]

\* loadRawLine from the point where the line has been parsed (the DOM
\* updates are left out)
loadParsedLine_next(app, parsedLine, r) ==
    [lines |-> Append(app.lines, parsedLine),
     bpfStates |-> Append(app.bpfStates, r.ref),
     heap |-> r.heap,
     saved |-> r.saved]

\* recent is mostRecentBpfState(state, idx); a fresh initial state is a new
\* object
loadParsedLine_recent(app, parsedLine, recent) ==
    IF recent.fresh
    THEN loadParsedLine_next(app, parsedLine,
                             nextBpfState(Append(app.heap, recent.state), app.saved,
                                          Len(app.heap) + 1, parsedLine))
    ELSE loadParsedLine_next(app, parsedLine,
                             nextBpfState(app.heap, app.saved, recent.ref, parsedLine))

loadParsedLine(app, parsed) ==
    loadParsedLine_recent(app, [parsed EXCEPT !.idx = Len(app.lines)],
                          mostRecentBpfState(app.heap, app.bpfStates, Len(app.lines)))

loadRawLine(app, rawLine) == loadParsedLine(app, parseLine(rawLine))

\* lines.forEach(rawLine => loadRawLine(state, rawLine))
RECURSIVE loadRawLines(_, _)
loadRawLines(app, rawLines) ==
    IF rawLines = <<>> THEN app
    ELSE loadRawLines(loadRawLine(app, Head(rawLines)), Tail(rawLines))

\* One iteration of the while loop of loadInputFile for a chunk the reader
\* delivered: the raw lines it loads and the new remainder.
readChunk(remainder, value) ==
    LET parts == split(value)
        lns   == [parts EXCEPT ![1] = remainder \o parts[1]]
    IN  IF Len(lns) > 1
        THEN [lines |-> SubSeq(lns, 1, Len(lns) - 1), remainder |-> lns[Len(lns)]]
        ELSE [lines |-> lns, remainder |-> ""]

\* The iteration in which the reader reports done.
readDone(remainder) ==
    [lines |-> IF Len(remainder) > 0 THEN <<remainder>> ELSE <<>>, remainder |-> remainder]

(***************************************************************************)
(* src/app.ts: the dependency resolver.  lns is state.lines and sts the    *)
(* BpfState objects of state.bpfStates.  A result is [threw, deps]: threw  *)
(* when the code reads a property of undefined (a TypeError).              *)
(***************************************************************************)
Threw == [threw |-> TRUE, diverged |-> FALSE, deps |-> {}]

\* the recursion did not come to an end within the fuel given
Diverged == [threw |-> FALSE, diverged |-> TRUE, deps |-> {}]

Deps(set) == [threw |-> FALSE, diverged |-> FALSE, deps |-> set]

\* array[i] is undefined for an undefined or out-of-range index
Defined(seq, i) == i >= 0 /\ i < Len(seq)

RECURSIVE memSlotDependencies(_, _, _, _, _)
memSlotDependencies(lns, sts, idx, memSlotId, fuel) ==
    IF fuel = 0 THEN Diverged
    ELSE IF ~Defined(lns, idx) THEN Threw
    ELSE IF lns[idx + 1].bpfIns.isNull THEN Deps({})
    ELSE IF ~Defined(sts, idx) THEN Threw
    ELSE
    LET bpfState == sts[idx + 1]
        effect   == MapGet(bpfState.values, memSlotId, NullValue).effect
        depIdx   == MapGet(bpfState.lastKnownWrites, memSlotId, Undefined)
        depIns   == lns[depIdx + 1].bpfIns
        nReads   == Len(depIns.reads)
        prevBpfState == mostRecentBpfState(sts, [i \in 1..Len(sts) |-> i], idx - 1).state
        prevDepIdx   == MapGet(prevBpfState.lastKnownWrites, memSlotId, Undefined)
        rec      == IF depIdx = idx /\ effect = "UPDATE"
                    THEN memSlotDependencies(lns, sts, prevDepIdx, memSlotId, fuel - 1)
                    ELSE IF nReads = 1
                    THEN memSlotDependencies(lns, sts, depIdx, depIns.reads[1], fuel - 1)
                    ELSE Deps({})
    IN  IF ~Defined(lns, depIdx) THEN Threw
        ELSE IF effect = "undefined" \/ depIdx = 0 \/ depIns.isNull THEN Deps({})
        ELSE IF rec.threw \/ rec.diverged THEN rec
        ELSE Deps(rec.deps \cup {depIdx})

\* arr.sort((a,b) => a - b) of the members of a set of numbers
RECURSIVE SortedSeq(_)
SortedSeq(set) ==
    IF set = {} THEN <<>>
    ELSE <<Min(set)>> \o SortedSeq(set \ {Min(set)})

\* collectMemSlotDependencies with state.selectedLineIdx = idx; the result
\* is [threw, deps] with deps the sorted array
collectMemSlotDependencies(lns, sts, idx, memSlotId) ==
    LET ins    == lns[idx + 1].bpfIns
        target == IF /\ memSlotId \notin Range(ins.reads)
                     /\ memSlotId \in Range(ins.writes)
                     /\ Len(ins.reads) = 1
                  THEN ins.reads[1]
                  ELSE memSlotId
        r      == memSlotDependencies(lns, sts, idx, target,
                                      (Len(lns) + 1) * (Len(lns) + 1) + 1)
    IN  IF ins.isNull THEN [threw |-> FALSE, diverged |-> FALSE, deps |-> <<>>]
        ELSE [threw |-> r.threw, diverged |-> r.diverged, deps |-> SortedSeq(r.deps)]

(***************************************************************************)
(* The state                                                               *)
(***************************************************************************)
VARIABLES
    lines,              \* state.lines
    bpfStates,          \* state.bpfStates: references into heap
    heap,               \* the BpfState objects created so far
    SAVED_BPF_STATES,   \* the module-level stack of saved states (references)
    rawInput,           \* the raw lines handed to the simulator so far
    fileBlob,           \* state.fileBlob: the text of the selected file
    reader,             \* loadInputFile: the text its reader has not delivered
    remainder,          \* loadInputFile: the local remainder
    loading,            \* loadInputFile: "none", "reading", "done";
                        \* with the number of chunks read in the session
    others              \* the session's other load operations: the locals
                        \* of each loadInputFile invocation a later
                        \* selection left running, and the pastes

vars == <<lines, bpfStates, heap, SAVED_BPF_STATES, rawInput,
          fileBlob, reader, remainder, loading, others>>

loaderVars == <<fileBlob, reader, remainder, loading, others>>

App == [lines |-> lines, bpfStates |-> bpfStates, heap |-> heap,
        saved |-> SAVED_BPF_STATES]

SetApp(app) ==
    /\ lines' = app.lines
    /\ bpfStates' = app.bpfStates
    /\ heap' = app.heap
    /\ SAVED_BPF_STATES' = app.saved

\* the BpfState recorded for the line with index idx (0-based)
StateAt(idx) == heap[bpfStates[idx + 1]]

\* the BpfState objects of state.bpfStates
States == [i \in 1..Len(bpfStates) |-> heap[bpfStates[i]]]

Raws(lns) == [i \in 1..Len(lns) |-> lns[i].raw]

Init ==
    /\ lines = <<>>
    /\ bpfStates = <<>>
    /\ heap = <<>>
    /\ SAVED_BPF_STATES = <<>>
    /\ rawInput = <<>>
    /\ fileBlob = ""
    /\ reader = ""
    /\ remainder = ""
    /\ loading = [status |-> "none", chunks |-> 0]
    /\ others = <<>>

(***************************************************************************)
(* Spec: one log loaded line by line into a new application.               *)
(***************************************************************************)
MaxLines == 3

RawLines ==
    {"0: (b7) r1 = 13 ; R1_w=13",
     "1: (b7) r7 = 0",
     "2: (bf) r2 = r1 ; R2_w=13",
     "3: (0f) r1 += r3 ; R1_w=scalar() R3=scalar()",
     "4: (63) *(u32 *)(r10 -64) = r1 ; R1=scalar() fp-64=scalar()",
     "5: (85) call pc+3",
     "6: (bf) r6 = r2 ; R6_w=13",
     "7: (63) *(u32 *)(r2 +4) = r1",
     "8: (61) r3 = *(u32 *)(r2 +4) ; R3_w=0 R3_w=scalar() R10=fp0",
     "9: (95) exit",
     "processed 23 insns"}

LoadRawLine ==
    /\ Len(lines) < MaxLines
    /\ \E rawLine \in RawLines :
        /\ SetApp(loadRawLine(App, rawLine))
        /\ rawInput' = Append(rawInput, rawLine)
    /\ UNCHANGED loaderVars

Next == LoadRawLine

Spec == Init /\ [][Next]_vars

(***************************************************************************)
(* ParseSpec: parseLine applied to one input text.                         *)
(***************************************************************************)
ParseTexts ==
    {lead \o pc \o opcode \o body \o comment :
        lead \in {"", "  "},
        pc \in {"0:", "12:", "7", ""},
        opcode \in {" (b7) ", " (7b) ", " (61) ", " (85) ", " (95) ", " (15) ", " (3d) ",
                    "(05)", " (zz) ", " "},
        body \in {"r2 = 1", "r2 =", "= 1", "*(u64 *)(r10 -24) = r2", "w1 s>>= 0x1f",
                  "r1 += r3", "r3 = *(u8 *)(r10 -24)", "r1 = *(u32 *)(r2 +4)",
                  "*(u32 *)(r2 +4) = r1",
                  "call pc+3", "call pc-2", "call bpf_probe_read_user#112", "call", "exit",
                  "if r3 == 0 goto pc+4", "if r3 <= 4 goto pc+4", "if r3 >= r4 goto pc+4",
                  "goto pc+4", ""},
        comment \in {"", " ; R2_w=1 R10=fp0 fp-24_w=1", " ; R1=1 junk R2=2",
                     "; frame2: R6_w=7 R10=fp0",
                     "; frame1: R1=scalar(id=3,x=(a b)) junk"}}

ParseInit ==
    /\ lines = <<>>
    /\ bpfStates = <<>>
    /\ heap = <<>>
    /\ SAVED_BPF_STATES = <<>>
    /\ rawInput \in {<<text>> : text \in ParseTexts}
    /\ fileBlob = ""
    /\ reader = ""
    /\ remainder = ""
    /\ loading = [status |-> "none", chunks |-> 0]
    /\ others = <<>>

ParseLine ==
    /\ lines = <<>>
    /\ lines' = <<parseLine(rawInput[1])>>
    /\ UNCHANGED <<bpfStates, heap, SAVED_BPF_STATES, rawInput, loaderVars>>

ParseNext == ParseLine

ParseSpec == ParseInit /\ [][ParseNext]_vars

(***************************************************************************)
(* SimSpec: nextBpfState driven with parsed lines, among them a line whose *)
(* instruction has jump kind EXIT (parseJmpInstruction never builds one).  *)
(* A caller may start to replay from the initial state at any time;        *)
(* SAVED_BPF_STATES is a module-level constant that nothing clears.        *)
(***************************************************************************)
MaxSteps == 4

ExitLine ==
    [idx |-> -1, type |-> "INSTRUCTION", raw |-> "9: (95) exit",
     bpfIns |-> [Instruction([code |-> EXIT, iclass |-> 5, source |-> "K"], <<>>, <<>>,
                             Jmp("", "EXIT", NoCond), NoAlu, NoLocation)
                 EXCEPT !.pc = 9],
     bpfStateExprs |-> <<>>]

SimLines ==
    {parseLine(rawLine) : rawLine \in {"0: (b7) r1 = 13 ; R1_w=13",
                                       "1: (b7) r0 = 7 ; R0_w=7",
                                       "5: (85) call pc+3",
                                       "6: (7b) *(u64 *)(r10 -8) = r6 ; R6=13 fp-8=13",
                                       "processed 23 insns"}}
    \cup {ExitLine}

AdvanceState ==
    /\ Len(rawInput) < MaxSteps
    /\ \E line \in SimLines :
        /\ SetApp(loadParsedLine(App, line))
        /\ rawInput' = Append(rawInput, line.raw)
    /\ UNCHANGED loaderVars

StartReplay ==
    /\ Len(rawInput) < MaxSteps
    /\ lines # <<>>
    /\ lines' = <<>>
    /\ bpfStates' = <<>>
    /\ UNCHANGED <<heap, SAVED_BPF_STATES, rawInput, loaderVars>>

SimNext == AdvanceState \/ StartReplay

SimSpec == Init /\ [][SimNext]_vars

(***************************************************************************)
(* LoaderSpec: the load operations of one application: files selected and  *)
(* streamed by loadInputFile in chunks of any size, and texts pasted.  A   *)
(* file may be selected while an earlier one is still being read: each     *)
(* loadInputFile invocation keeps its own reader and remainder, and all    *)
(* of them load into the one AppState.                                     *)
(***************************************************************************)
MaxChunks == 3

MaxLoads == 2

\* the load operations started so far
Loads == Len(others) + (IF loading.status = "none" THEN 0 ELSE 1)

FileTexts ==
    {"0: (b7) r2 = 1\n1: (bf) r3 = r2",
     "junk\n0: (b7) r2 = 1\n\n"}

ProcessFile ==
    /\ Loads < MaxLoads
    /\ \E file \in FileTexts :
        /\ fileBlob' = file
        /\ reader' = file
    /\ lines' = <<>>
    /\ remainder' = ""
    /\ loading' = [loading EXCEPT !.status = "reading"]
    /\ others' = IF loading.status = "none" THEN others
                 ELSE Append(others, [reader |-> reader, remainder |-> remainder,
                                      done |-> loading.status = "done"])
    /\ UNCHANGED <<bpfStates, heap, SAVED_BPF_STATES, rawInput>>

\* handlePaste, or the text fetched from the url parameter
LoadInputText ==
    /\ Loads < MaxLoads
    /\ \E text \in FileTexts :
        /\ SetApp(loadRawLines(App, split(text)))
        /\ rawInput' = rawInput \o split(text)
    /\ others' = Append(others, [reader |-> "", remainder |-> "", done |-> TRUE])
    /\ UNCHANGED <<fileBlob, reader, remainder, loading>>

ReadChunk ==
    /\ loading.status = "reading"
    /\ reader # ""
    /\ \E n \in (IF loading.chunks + 1 < MaxChunks THEN 1..Len(reader) ELSE {Len(reader)}) :
        LET r == readChunk(remainder, SubSeq(reader, 1, n))
        IN  /\ SetApp(loadRawLines(App, r.lines))
            /\ rawInput' = rawInput \o r.lines
            /\ remainder' = r.remainder
            /\ reader' = Drop(reader, n)
    /\ loading' = [loading EXCEPT !.chunks = @ + 1]
    /\ UNCHANGED <<fileBlob, others>>

ReadDone ==
    /\ loading.status = "reading"
    /\ reader = ""
    /\ LET r == readDone(remainder)
       IN  /\ SetApp(loadRawLines(App, r.lines))
           /\ rawInput' = rawInput \o r.lines
    /\ loading' = [loading EXCEPT !.status = "done"]
    /\ UNCHANGED <<fileBlob, reader, remainder, others>>

\* the same iterations in an invocation that a later selection left running
ReadChunkOther ==
    \E k \in 1..Len(others) :
        /\ ~others[k].done
        /\ others[k].reader # ""
        /\ \E n \in (IF loading.chunks + 1 < MaxChunks
                      THEN 1..Len(others[k].reader) ELSE {Len(others[k].reader)}) :
            LET r == readChunk(others[k].remainder, SubSeq(others[k].reader, 1, n))
            IN  /\ SetApp(loadRawLines(App, r.lines))
                /\ rawInput' = rawInput \o r.lines
                /\ others' = [others EXCEPT ![k] =
                                  [reader |-> Drop(others[k].reader, n),
                                   remainder |-> r.remainder,
                                   done |-> FALSE]]
        /\ loading' = [loading EXCEPT !.chunks = @ + 1]
        /\ UNCHANGED <<fileBlob, reader, remainder>>

ReadDoneOther ==
    \E k \in 1..Len(others) :
        /\ ~others[k].done
        /\ others[k].reader = ""
        /\ LET r == readDone(others[k].remainder)
           IN  /\ SetApp(loadRawLines(App, r.lines))
               /\ rawInput' = rawInput \o r.lines
        /\ others' = [others EXCEPT ![k].done = TRUE]
        /\ UNCHANGED <<fileBlob, reader, remainder, loading>>

LoaderNext ==
    \/ ProcessFile
    \/ LoadInputText
    \/ ReadChunk
    \/ ReadDone
    \/ ReadChunkOther
    \/ ReadDoneOther

LoaderSpec == Init /\ [][LoaderNext]_vars

(***************************************************************************)
(* Properties                                                              *)
(***************************************************************************)
\* the value a state holds for a slot ("" when it holds none)
ValueOf(state, id) ==
    IF Truthy(MapGet(state.values, id, NullValue).value)
    THEN MapGet(state.values, id, NullValue).value
    ELSE ""

\* the slots of line idx that can be selected: the register and stack slot
\* operands (memSlotHtml gives no slot to an immediate, and setSelectedLine
\* ignores MEM)
ShownSlots(idx) ==
    (Range(lines[idx + 1].bpfIns.reads) \cup Range(lines[idx + 1].bpfIns.writes))
        \ {"MEM", "IMM"}

ReadSlots(idx) == Range(lines[idx + 1].bpfIns.reads) \ {"MEM", "IMM"}

\* the lines before idx whose instruction writes slot id
WritersBefore(idx, id) ==
    {k \in 0..(idx - 1) : id \in Range(lines[k + 1].bpfIns.writes)}

\* the most recent line before idx that wrote slot id (Undefined if none)
LastWriterBefore(idx, id) ==
    IF WritersBefore(idx, id) = {} THEN Undefined
    ELSE CHOOSE k \in WritersBefore(idx, id) : \A m \in WritersBefore(idx, id) : m <= k

\* the chain of single-source writers that starts at writer j
RECURSIVE ChainFrom(_)
ChainFrom(j) ==
    IF j = Undefined THEN {}
    ELSE {j} \cup (IF Len(lines[j + 1].bpfIns.reads) = 1
                   THEN ChainFrom(LastWriterBefore(j, lines[j + 1].bpfIns.reads[1]))
                   ELSE {})

\* the result of a query that returned the lines of set
Returned(set) == [threw |-> FALSE, diverged |-> FALSE, deps |-> SortedSeq(set)]

\* the snapshots a new session records for the parsed lines lns
RECURSIVE Replay(_, _)
Replay(app, lns) ==
    IF lns = <<>> THEN app ELSE Replay(loadParsedLine(app, Head(lns)), Tail(lns))

FreshStates(lns) ==
    [i \in 1..Len(lns) |-> Replay(EmptyApp, lns).heap[Replay(EmptyApp, lns).bpfStates[i]]]

\* the raw lines loadInputFile loads when the whole text arrives as one chunk
SingleChunkLines(text) ==
    readChunk("", text).lines \o readDone(readChunk("", text).remainder).lines

\* a step that records the state of one more line
LoadsLine == Len(lines') = Len(lines) + 1 /\ Len(bpfStates') = Len(bpfStates) + 1

\* The words of str: its maximal runs of characters other than a space.
RECURSIVE Tokens(_)
Tokens(str) ==
    IF str = "" THEN <<>>
    ELSE LET k == indexOf(str, " ")
         IN  IF k = -1 THEN <<str>>
             ELSE IF k = 0 THEN Tokens(Drop(str, 1))
             ELSE <<Substring(str, 0, k)>> \o Tokens(Drop(str, k + 1))

\* The parts of a log line "<pc>: (<opcode>) <instruction> ; <state comment>"
\* read off its text: the opcode digits ("" when the line has no program
\* counter or no opcode), the instruction text, the comment from its ";" on,
\* the frame number of the comment's "frame<N>:" prefix (0 without one) and
\* the comment's tokens after that prefix.
TextFields(raw) ==
    LET t0 == consumeSpaces(raw)
        n  == SpanLen(t0, Digits)
        t1 == consumeSpaces(Drop(t0, n + 1))
        hasOpcode == /\ n > 0 /\ Substring(t0, n, n + 1) = ":"
                     /\ Len(t1) >= 4 /\ Ch(t1, 1) = "(" /\ Ch(t1, 4) = ")"
        t2 == consumeSpaces(Drop(t1, 4))
        k  == indexOf(t2, ";")
        toks == IF k = -1 THEN <<>> ELSE Tokens(Drop(t2, k + 1))
        framed == /\ toks # <<>>
                  /\ startsWith(Head(toks), "frame") /\ endsWith(Head(toks), ":")
                  /\ Len(Head(toks)) > 6
                  /\ SpanLen(Drop(Head(toks), 5), Digits) = Len(Head(toks)) - 6
    IN  [opcode  |-> IF hasOpcode THEN Substring(t1, 1, 3) ELSE "",
         pc      |-> IF hasOpcode THEN parseInt(Substring(t0, 0, n)) ELSE -1,
         ins     |-> IF k = -1 THEN t2 ELSE Substring(t2, 0, k),
         comment |-> IF k = -1 THEN "" ELSE Drop(t2, k),
         frame   |-> IF framed
                     THEN parseInt(Substring(Head(toks), 5, Len(Head(toks)) - 1))
                     ELSE 0,
         tokens  |-> IF framed THEN Tail(toks) ELSE toks]

\* The state expression a "key=value" token stands for: the key lowercased
\* with a trailing "_w" stripped, and the text after the first "=".
ExpectedExpr(tok, frame) ==
    LET k   == indexOf(tok, "=")
        key == Substring(tok, 0, k)
    IN  [isNull |-> FALSE,
         id     |-> toLowerCase(IF endsWith(key, "_w")
                                THEN Substring(key, 0, Len(key) - 2) ELSE key),
         value  |-> Drop(tok, k + 1),
         rawKey |-> key,
         frame  |-> frame]

\* memSlotHtml: line.raw.slice(start, end) with start = raw.length + offset
\* and end = start + size (slice clamps both ends to the text).
Slice(raw, location) ==
    LET clamp(x) == IF x < 0 THEN 0 ELSE IF x > Len(raw) THEN Len(raw) ELSE x
    IN  Substring(raw, clamp(Len(raw) + location.offset),
                  clamp(Len(raw) + location.offset + location.size))

\* C1: parseLine returns, for every input text, either an INSTRUCTION result
\* (with an instruction) or an UNRECOGNIZED result (without one), and the
\* raw field of the result is the input text unchanged.
C1_ParseLineTotal ==
    \A i \in 1..Len(lines) :
        /\ lines[i].type \in {"INSTRUCTION", "UNRECOGNIZED"}
        /\ (lines[i].type = "INSTRUCTION") <=> ~lines[i].bpfIns.isNull
        /\ lines[i].raw = rawInput[i]

C1_Witness ==
    /\ Len(lines) = 1
    /\ rawInput[1] = "  12: (b7) r2 ="
    /\ lines[1].type = "UNRECOGNIZED"

C3_CallThenExit ==
    \A i, j \in 1..Len(lines) :
        (/\ i < j
         /\ lines[i].raw = "5: (85) call pc+3"
         /\ lines[j].raw = "9: (95) exit"
         /\ \A k \in 1..(j - 1) :
                k # i => lines[k].raw \notin {"5: (85) call pc+3", "9: (95) exit"})
        => /\ StateAt(i - 1).frame = 1
           /\ StateAt(j - 1).frame = 0
           /\ ValueOf(StateAt(j - 1), "r0") = ValueOf(StateAt(j - 2), "r0")

\* C4: in a log loaded line by line, a line classified UNRECOGNIZED occupies
\* a line index and contributes
\* no state transition: the state recorded for its index is the state of the
\* nearest preceding instruction line (the initial state if there is none),
\* and loading the line leaves the frame stack unchanged.
C4_UnrecognizedKeepsState ==
    /\ [](\A i \in 1..Len(lines) :
            lines[i].type = "UNRECOGNIZED" =>
                /\ lines[i].idx = i - 1
                /\ Len(bpfStates) >= i
                /\ StateAt(i - 1) =
                      IF \E k \in 1..(i - 1) : lines[k].type = "INSTRUCTION"
                      THEN StateAt((CHOOSE k \in 1..(i - 1) :
                                       /\ lines[k].type = "INSTRUCTION"
                                       /\ \A m \in (k + 1)..(i - 1) :
                                              lines[m].type # "INSTRUCTION") - 1)
                      ELSE [values |-> [r \in {"r0", "r1", "r2", "r3", "r4", "r5", "r6",
                                               "r7", "r8", "r9", "r10"} |->
                                           CASE r = "r1"  -> Value("ctx()", "NONE")
                                             [] r = "r10" -> Value("fp-0", "NONE")
                                             [] OTHER     -> NullValue],
                            lastKnownWrites |-> [r \in {"r1", "r10"} |-> 0],
                            frame |-> 0, idx |-> 0, pc |-> 0])
    /\ [][(LoadsLine /\ lines'[Len(lines')].type = "UNRECOGNIZED")
            => SAVED_BPF_STATES' = SAVED_BPF_STATES]_vars

C4_Witness ==
    /\ Len(lines) = 3
    /\ lines[1].raw = "0: (b7) r1 = 13 ; R1_w=13"
    /\ lines[2].raw = "5: (85) call pc+3"
    /\ lines[3].type = "UNRECOGNIZED"
    /\ StateAt(2).frame = 1
    /\ Len(SAVED_BPF_STATES) = 1

\* C5: for every instruction line i that reads slot s, and the most recent
\* line j before i that wrote s: if line j reads no slot or more than one
\* slot, resolving (i, s) yields exactly [j].
C5_StopsAtWriter ==
    \A i \in 0..(Len(lines) - 1) :
        \A s \in ReadSlots(i) :
            (/\ LastWriterBefore(i, s) # Undefined
             /\ Len(lines[LastWriterBefore(i, s) + 1].bpfIns.reads) # 1)
            => collectMemSlotDependencies(lines, States, i, s)
                   = Returned({LastWriterBefore(i, s)})

\* C6: resolving a slot that line i reads (and does not write) returns, in
\* ascending order, exactly the lines of the chain that starts at the most
\* recent writer of the slot and continues, while the writer reads exactly
\* one slot, at the most recent writer of that slot.
C6_FullChain ==
    \A i \in 0..(Len(lines) - 1) :
        \A s \in ReadSlots(i) \ Range(lines[i + 1].bpfIns.writes) :
            LastWriterBefore(i, s) # Undefined
            => collectMemSlotDependencies(lines, States, i, s)
                   = Returned(ChainFrom(LastWriterBefore(i, s)))

\* C7: for every instruction line and every register or stack slot shown
\* on it, the dependency query returns a list and raises no exception.
C7_QueryNeverThrows ==
    \A i \in 0..(Len(lines) - 1) :
        \A s \in ShownSlots(i) :
            ~collectMemSlotDependencies(lines, States, i, s).threw

\* C8: the transition for an EXIT instruction taken with an empty saved
\* frame stack yields a state with r1 the context, r10 the frame pointer of
\* frame 0, every other slot unknown and frame depth 0, and the stack stays
\* empty.
C8_ExitOnEmptyStack ==
    [][(/\ LoadsLine
        /\ lines'[Len(lines')].bpfIns.jmp.kind = "EXIT"
        /\ SAVED_BPF_STATES = <<>>)
       => /\ SAVED_BPF_STATES' = <<>>
          /\ heap'[bpfStates'[Len(bpfStates')]].frame = 0
          /\ ValueOf(heap'[bpfStates'[Len(bpfStates')]], "r1") = "ctx()"
          /\ ValueOf(heap'[bpfStates'[Len(bpfStates')]], "r10") = "fp-0"
          /\ \A id \in DOMAIN heap'[bpfStates'[Len(bpfStates')]].values \ {"r1", "r10"} :
                ValueOf(heap'[bpfStates'[Len(bpfStates')]], id) = ""]_vars

C8_Witness ==
    /\ Len(rawInput) = 2
    /\ Len(lines) = 2
    /\ lines[1].raw = "0: (b7) r1 = 13 ; R1_w=13"
    /\ lines[2].bpfIns.jmp.kind = "EXIT"
    /\ ValueOf(StateAt(0), "r1") = "13"
    /\ ValueOf(StateAt(1), "r1") = "ctx()"
    /\ SAVED_BPF_STATES = <<>>

\* C9: a state snapshot never changes once it is recorded: every step
\* leaves the snapshot of every line processed so far (values, effects,
\* last-writer map, frame depth, idx and pc) as it was.
C9_SnapshotsImmutable ==
    [][\A i \in 1..Len(bpfStates) :
          i <= Len(bpfStates')
          => /\ bpfStates'[i] = bpfStates[i]
             /\ heap'[bpfStates[i]] = heap[bpfStates[i]]]_vars

C9_Witness ==
    /\ Len(lines) = 3
    /\ lines[1].raw = "1: (b7) r0 = 7 ; R0_w=7"
    /\ lines[2].bpfIns.jmp.kind = "BPF2BPF_CALL"
    /\ lines[3].bpfIns.jmp.kind = "EXIT"
    /\ StateAt(1).frame = 1
    /\ StateAt(2).frame = 0
    /\ ValueOf(StateAt(0), "r0") = "7"

\* C10: however the text is cut into chunks, loadInputFile loads the raw
\* lines it loads when the text arrives as a single chunk.
C10_ChunkingInvariant ==
    loading.status = "done" => Raws(lines) = SingleChunkLines(fileBlob)

\* C11: in a state comment, a token without "=" is skipped and the tokens
\* after it are still parsed: every key=value token of the comment, before
\* or after such a token, yields one state expression with that token's own
\* normalized key and value (comments whose values hold no parentheses).
C11_TokenWithoutEqualsSkipped ==
    \A i \in 1..Len(lines) :
        (/\ lines[i].type = "INSTRUCTION"
         /\ lines[i].bpfIns.jmp.kind # "UNCONDITIONAL_GOTO"
         /\ indexOf(TextFields(lines[i].raw).comment, "(") = -1)
        => LET f    == TextFields(lines[i].raw)
               good == SelectSeq(f.tokens, LAMBDA t : indexOf(t, "=") # -1)
           IN  lines[i].bpfStateExprs =
                   [k \in 1..Len(good) |-> ExpectedExpr(good[k], f.frame)]

\* C12: a line "<pc>: (85) call <target>" with target pc+<N> or pc-<N>
\* parses as a BPF2BPF_CALL reading {r1..r5} and writing {r0, r6..r9}; with
\* a target <name>#<id> it parses as a HELPER_CALL whose target is the whole
\* <name>#<id> text, reading {r1..r5} and writing {r0, r1..r5}; pc is the
\* line's program counter, and when nothing follows the call text
\* parseOpcodeIns returns this instruction with an empty rest.
C12_CallClassification ==
    \A i \in 1..Len(lines) :
        LET f      == TextFields(lines[i].raw)
            words  == Tokens(f.ins)
            target == words[2]
            pcRel  == /\ (startsWith(target, "pc+") \/ startsWith(target, "pc-"))
                      /\ Len(target) > 3
                      /\ SpanLen(Drop(target, 3), Digits) = Len(target) - 3
            ins    == lines[i].bpfIns
        IN  (/\ f.opcode = "85" /\ Len(words) = 2 /\ words[1] = "call"
             /\ (pcRel \/ indexOf(target, "#") > 0))
            => /\ lines[i].type = "INSTRUCTION"
               /\ ins.pc = f.pc
               /\ ins.jmp.target = target
               /\ Range(ins.reads) = {"r1", "r2", "r3", "r4", "r5"}
               /\ pcRel => /\ ins.jmp.kind = "BPF2BPF_CALL"
                           /\ Range(ins.writes) = {"r0", "r6", "r7", "r8", "r9"}
               /\ ~pcRel => /\ ins.jmp.kind = "HELPER_CALL"
                            /\ Range(ins.writes) = {"r0", "r1", "r2", "r3", "r4", "r5"}
               /\ f.comment = "" =>
                      parseOpcodeIns("(85) " \o f.ins, f.pc) = [ins |-> ins, rest |-> ""]

C12_Witness ==
    /\ Len(lines) = 1
    /\ rawInput[1] = "12: (85) call pc-2"
    /\ lines[1].bpfIns.jmp.kind = "BPF2BPF_CALL"
    /\ lines[1].bpfIns.writes = <<"r0", "r6", "r7", "r8", "r9">>

\* C13: for every line parsed as an ALU/load/store instruction
\* "<dst> <operator> <src>": the writes-set is exactly the destination's
\* identifier; the destination's identifier is in the reads-set iff the
\* operator is not "="; the source's identifier is in the reads-set iff the
\* source is not an immediate; and the address register of every operand
\* that is a memory reference is in the reads-set.
C13_AluReadsWrites ==
    \A i \in 1..Len(lines) :
        (lines[i].type = "INSTRUCTION" /\ lines[i].bpfIns.alu.present)
        => LET ins == lines[i].bpfIns
               alu == ins.alu
           IN  /\ ins.writes = <<alu.dst.id>>
               /\ (alu.dst.id \in Range(ins.reads)) <=> (alu.operator # "=")
               /\ (alu.src.id \in Range(ins.reads)) <=> (alu.src.type # "IMM")
               /\ \A op \in {alu.dst, alu.src} :
                      op.memref.present => op.memref.address_reg \in Range(ins.reads)

\* C14: on a comment "; k1=v1 k2=v2 ..." of space-separated key=value
\* tokens, parseBpfStateExprs returns one expression per token, in order,
\* with id the key lowercased and a trailing "_w" stripped and value the
\* token's value, and an empty rest; every expression carries the frame of
\* the "frame<N>: " prefix, or 0 without one.  The same expressions are the
\* bpfStateExprs of a parsed line that ends with this comment (after an
\* unconditional goto parseLine does not reach the comment).
C14_OneExprPerToken ==
    \A i \in 1..Len(lines) :
        LET f == TextFields(lines[i].raw)
            expected == [k \in 1..Len(f.tokens) |-> ExpectedExpr(f.tokens[k], f.frame)]
        IN  (/\ f.tokens # <<>>
             /\ \A k \in 1..Len(f.tokens) :
                    indexOf(f.tokens[k], "=") > 0 /\ indexOf(f.tokens[k], "(") = -1)
            => /\ parseBpfStateExprs(f.comment) = [exprs |-> expected, rest |-> ""]
               /\ (/\ lines[i].type = "INSTRUCTION"
                   /\ lines[i].bpfIns.jmp.kind # "UNCONDITIONAL_GOTO")
                  => lines[i].bpfStateExprs = expected

C14_Witness ==
    /\ Len(lines) = 1
    /\ rawInput[1] = "12: (7b) *(u64 *)(r10 -24) = r2 ; R2_w=1 R10=fp0 fp-24_w=1"
    /\ Len(lines[1].bpfStateExprs) = 3
    /\ lines[1].bpfStateExprs[3].id = "fp-24"
    /\ lines[1].bpfStateExprs[3].rawKey = "fp-24_w"

\* C15: for every raw line parsed as an instruction, the text sliced out of
\* the raw line at each operand's location (from raw.length + offset, for
\* size characters) is the operand's original text: the instruction text
\* of the line is the destination's slice, the operator and the source's
\* slice (for a conditional jump "if", the left slice, the operator, the
\* right slice and the goto), and each slice parses back to its operand;
\* this holds with leading whitespace and with a state comment.
C15_SourceSpanRoundTrip ==
    \A i \in 1..Len(lines) :
        LET raw  == lines[i].raw
            ins  == lines[i].bpfIns
            text == TextFields(raw).ins
            dst  == Slice(raw, ins.alu.dst.location)
            src  == Slice(raw, ins.alu.src.location)
            left == Slice(raw, ins.jmp.cond.left.location)
            right == Slice(raw, ins.jmp.cond.right.location)
            IsText(t) == startsWith(text, t) /\ consumeSpaces(Drop(text, Len(t))) = ""
        IN  /\ (lines[i].type = "INSTRUCTION" /\ ins.alu.present)
               => /\ IsText(dst \o " " \o ins.alu.operator \o " " \o src)
                  /\ parseAluDst(dst) = [op |-> [ins.alu.dst EXCEPT !.location = NoLocation],
                                         rest |-> ""]
                  /\ parseAluSrc(src) = [op |-> [ins.alu.src EXCEPT !.location = NoLocation],
                                         rest |-> ""]
            /\ (lines[i].type = "INSTRUCTION" /\ ins.jmp.cond.present)
               => /\ IsText("if " \o left \o " " \o ins.jmp.cond.op \o " " \o right
                            \o " goto " \o ins.jmp.target)
                  /\ parseCondOp(left) = [op |-> [ins.jmp.cond.left EXCEPT !.location = NoLocation],
                                          rest |-> ""]
                  /\ parseCondOp(right) = [op |-> [ins.jmp.cond.right EXCEPT !.location = NoLocation],
                                           rest |-> ""]

C15_Witness ==
    /\ Len(lines) = 1
    /\ rawInput[1] = "  12: (7b) *(u64 *)(r10 -24) = r2 ; R2_w=1 R10=fp0 fp-24_w=1"
    /\ lines[1].type = "INSTRUCTION"
    /\ Slice(lines[1].raw, lines[1].bpfIns.alu.dst.location) = "*(u64 *)(r10 -24)"
    /\ Slice(lines[1].raw, lines[1].bpfIns.alu.src.location) = "r2"

\* C16: a memory operand written "*(<width> *)(<base> <off>)" in a parsed
\* line has size 1/2/4/8 for width u8/u16/u32/u64; with base r10 its
\* identifier is "fp" followed by the offset text (fp-24) and its kind is
\* FP, so the identifier depends on the offset alone, not on the width;
\* with any other base its identifier is the shared "MEM".
C16_MemoryOperandIdentity ==
    \A i \in 1..Len(lines) :
        (lines[i].type = "INSTRUCTION" /\ lines[i].bpfIns.alu.present)
        => \A op \in {lines[i].bpfIns.alu.dst, lines[i].bpfIns.alu.src} :
               LET words == Tokens(Slice(lines[i].raw, op.location))
                   width == Drop(words[1], 2)
                   base  == Drop(words[2], 3)
                   off   == Substring(words[3], 0, Len(words[3]) - 1)
               IN  (Len(words) = 3 /\ startsWith(words[1], "*("))
                   => /\ op.size = (CASE width = "u8" -> 1 [] width = "u16" -> 2
                                      [] width = "u32" -> 4 [] width = "u64" -> 8)
                      /\ base = "r10" => op.id = "fp" \o off /\ op.type = "FP"
                      /\ base # "r10" => op.id = "MEM" /\ op.type = "MEM"

C16_Witness ==
    /\ Len(lines) = 1
    /\ rawInput[1] = "0: (7b) *(u64 *)(r10 -24) = r2 ; R2_w=1 R10=fp0 fp-24_w=1"
    /\ lines[1].bpfIns.alu.dst.id = "fp-24"
    /\ lines[1].bpfIns.alu.dst.type = "FP"
    /\ lines[1].bpfIns.alu.dst.size = 8
    /\ lines[1].bpfIns.alu.src.id = "r2"
    /\ Len(lines[1].bpfStateExprs) = 3

\* C17: the dependency walk never follows the shared MEM slot: for every
\* log, line and slot that can be selected on the line (MEM itself cannot),
\* no line of the result is a store to non-stack memory, so a load from
\* non-stack memory is never linked to an earlier store, whatever their
\* base registers and offsets; of such an access, the base register is what
\* can be selected.
C17_NonStackMemoryNotFollowed ==
    \A i \in 0..(Len(lines) - 1) :
        /\ \A s \in ShownSlots(i) :
               \A k \in Range(collectMemSlotDependencies(lines, States, i, s).deps) :
                   "MEM" \notin Range(lines[k + 1].bpfIns.writes)
        /\ \A op \in {lines[i + 1].bpfIns.alu.dst, lines[i + 1].bpfIns.alu.src} :
               op.type = "MEM"
               => op.id \notin ShownSlots(i) /\ op.memref.address_reg \in ShownSlots(i)

C17_Witness ==
    /\ Len(lines) = 3
    /\ lines[1].raw = "0: (b7) r1 = 13 ; R1_w=13"
    /\ lines[2].raw = "7: (63) *(u32 *)(r2 +4) = r1"
    /\ lines[3].raw = "8: (61) r3 = *(u32 *)(r2 +4) ; R3_w=0 R3_w=scalar() R10=fp0"
    /\ collectMemSlotDependencies(lines, States, 2, "r3") = Returned({2})

\* C18: a line "<pc>: (<opcode>) if <left> <cmp> <right> goto <target>"
\* whose opcode is a dispatched conditional jump (JEQ 15, JGE 3d here) and
\* whose <cmp> is a comparison operator of the table parses as a
\* CONDITIONAL_GOTO carrying that whole operator ("<=" and ">=" as
\* themselves, not as "<" and ">"), with reads = [left id, right id] and
\* an empty writes-set.
C18_LongestComparisonOperator ==
    \A i \in 1..Len(lines) :
        LET f     == TextFields(lines[i].raw)
            words == Tokens(f.ins)
            ins   == lines[i].bpfIns
        IN  (/\ f.opcode \in {"15", "3d"}
             /\ Len(words) = 6 /\ words[1] = "if" /\ words[5] = "goto"
             /\ words[3] \in Range(BPF_COND_OPERATORS)
             /\ ~parseCondOp(words[2]).op.isNull /\ parseCondOp(words[2]).rest = ""
             /\ ~parseCondOp(words[4]).op.isNull /\ parseCondOp(words[4]).rest = ""
             /\ RE_JMP_TARGET("goto " \o words[6]).len = Len(words[6]) + 5)
            => /\ lines[i].type = "INSTRUCTION"
               /\ ins.jmp.kind = "CONDITIONAL_GOTO"
               /\ ins.jmp.cond.op = words[3]
               /\ ins.reads = <<parseCondOp(words[2]).op.id, parseCondOp(words[4]).op.id>>
               /\ ins.writes = <<>>

\* C19: in the state recorded for an instruction line that is neither a
\* subprogram call nor an exit, the effect tag of every slot is determined
\* by the line alone: READ for a slot the line only reads, WRITE for a slot
\* it only writes, UPDATE for a slot it reads and writes, and NONE (or no
\* tag at all, for a slot without an entry) for every other slot, whether
\* or not the line's state comment mentions the slot.
C19_EffectsFromLineAlone ==
    \A i \in 0..(Len(lines) - 1) :
        (/\ lines[i + 1].type = "INSTRUCTION"
         /\ lines[i + 1].bpfIns.jmp.kind \notin {"BPF2BPF_CALL", "EXIT"})
        => \A s \in DOMAIN StateAt(i).values \cup ShownSlots(i) :
               LET effect == MapGet(StateAt(i).values, s, NullValue).effect
                   read   == s \in Range(lines[i + 1].bpfIns.reads)
                   write  == s \in Range(lines[i + 1].bpfIns.writes)
               IN  /\ (read /\ write) => effect = "UPDATE"
                   /\ (read /\ ~write) => effect = "READ"
                   /\ (~read /\ write) => effect = "WRITE"
                   /\ (~read /\ ~write) => effect \in {"NONE", NullValue.effect}

\* C20: in the state recorded for an instruction line with index i that is
\* neither a subprogram call nor an exit, lastKnownWrites[s] = i for every
\* slot s of the line's writes-set, and lastKnownWrites of every other slot
\* is what it was in the previous state (the initial state for the first
\* line).
C20_LastKnownWrites ==
    \A i \in 0..(Len(lines) - 1) :
        (/\ lines[i + 1].type = "INSTRUCTION"
         /\ lines[i + 1].bpfIns.jmp.kind \notin {"BPF2BPF_CALL", "EXIT"})
        => LET now  == StateAt(i).lastKnownWrites
               prev == IF i = 0 THEN initialBpfState.lastKnownWrites
                       ELSE StateAt(i - 1).lastKnownWrites
           IN  /\ \A s \in Range(lines[i + 1].bpfIns.writes) :
                      MapGet(now, s, Undefined) = i
               /\ \A s \in (DOMAIN now \cup DOMAIN prev) \ Range(lines[i + 1].bpfIns.writes) :
                      MapGet(now, s, Undefined) = MapGet(prev, s, Undefined)

C20_Witness ==
    /\ Len(lines) = 3
    /\ lines[1].raw = "1: (b7) r7 = 0"
    /\ lines[2].raw = "0: (b7) r1 = 13 ; R1_w=13"
    /\ lines[3].raw = "4: (63) *(u32 *)(r10 -64) = r1 ; R1=scalar() fp-64=scalar()"
    /\ StateAt(2).lastKnownWrites =
           [s \in {"r1", "r7", "r10", "fp-64"} |->
               CASE s = "r7" -> 0 [] s = "r1" -> 1 [] s = "fp-64" -> 2 [] s = "r10" -> 0]

\* C21: in the state recorded for an instruction line that is neither a
\* subprogram call nor an exit, every slot named by a state expression of
\* the line has exactly the reported literal as its value (the last one
\* when the slot is reported more than once); a written slot that is not
\* reported has the unknown (empty) value; every slot neither written nor
\* reported has the value it had in the previous state (the initial state
\* for the first line).
C21_ExplicitReportWins ==
    \A i \in 0..(Len(lines) - 1) :
        (/\ lines[i + 1].type = "INSTRUCTION"
         /\ lines[i + 1].bpfIns.jmp.kind \notin {"BPF2BPF_CALL", "EXIT"})
        => LET exprs == lines[i + 1].bpfStateExprs
               prev  == IF i = 0 THEN initialBpfState ELSE StateAt(i - 1)
               reports(s) == {k \in 1..Len(exprs) : exprs[k].id = s}
               last(s) == CHOOSE k \in reports(s) : \A m \in reports(s) : m <= k
           IN  \A s \in DOMAIN StateAt(i).values \cup DOMAIN prev.values
                        \cup Range(lines[i + 1].bpfIns.writes)
                        \cup {exprs[k].id : k \in 1..Len(exprs)} :
                   ValueOf(StateAt(i), s) =
                       IF reports(s) # {} THEN exprs[last(s)].value
                       ELSE IF s \in Range(lines[i + 1].bpfIns.writes) THEN ""
                       ELSE ValueOf(prev, s)

\* C21 as amended: the same, except that a reported literal "fp0" is stored
\* as "fp-0"; every other reported literal is stored as it is.
C21_ReportWinsFpRewritten ==
    \A i \in 0..(Len(lines) - 1) :
        (/\ lines[i + 1].type = "INSTRUCTION"
         /\ lines[i + 1].bpfIns.jmp.kind \notin {"BPF2BPF_CALL", "EXIT"})
        => LET exprs == lines[i + 1].bpfStateExprs
               prev  == IF i = 0 THEN initialBpfState ELSE StateAt(i - 1)
               reports(s) == {k \in 1..Len(exprs) : exprs[k].id = s}
               last(s) == CHOOSE k \in reports(s) : \A m \in reports(s) : m <= k
               stored(literal) == IF literal = "fp0" THEN "fp-0" ELSE literal
           IN  \A s \in DOMAIN StateAt(i).values \cup DOMAIN prev.values
                        \cup Range(lines[i + 1].bpfIns.writes)
                        \cup {exprs[k].id : k \in 1..Len(exprs)} :
                   ValueOf(StateAt(i), s) =
                       IF reports(s) # {} THEN stored(exprs[last(s)].value)
                       ELSE IF s \in Range(lines[i + 1].bpfIns.writes) THEN ""
                       ELSE ValueOf(prev, s)

C21_Witness ==
    /\ Len(lines) = 2
    /\ lines[1].raw = "1: (b7) r7 = 0"
    /\ lines[2].raw = "8: (61) r3 = *(u32 *)(r2 +4) ; R3_w=0 R3_w=scalar() R10=fp0"
    /\ ValueOf(StateAt(0), "r7") = ""
    /\ ValueOf(StateAt(1), "r3") = "scalar()"
    /\ ValueOf(StateAt(1), "r10") = "fp-0"
    /\ ValueOf(StateAt(1), "r1") = "ctx()"

\* C22: in the state recorded for a subprogram call line, the frame depth
\* is the pre-call depth plus 1; the saved-frame stack holds, for this
\* call, a copy of the pre-call state (same values, last writers and frame,
\* another object); the new state's slots are exactly r0..r10: r1..r5 with
\* their pre-call values tagged READ, r0 and r6..r9 unknown tagged WRITE,
\* r10 the fresh frame pointer base; no stack slot of the caller is there.
C22_CallPushesFrame ==
    \A i \in 0..(Len(lines) - 1) :
        lines[i + 1].bpfIns.jmp.kind = "BPF2BPF_CALL"
        => LET prev  == IF i = 0 THEN initialBpfState ELSE StateAt(i - 1)
               new   == StateAt(i)
               calls == Cardinality({k \in 1..(i + 1) :
                                        lines[k].bpfIns.jmp.kind = "BPF2BPF_CALL"})
               saved == heap[SAVED_BPF_STATES[calls]]
           IN  /\ new.frame = prev.frame + 1
               /\ Len(SAVED_BPF_STATES) >= calls
               /\ SAVED_BPF_STATES[calls] \notin Range(bpfStates)
               /\ saved.frame = prev.frame
               /\ saved.lastKnownWrites = prev.lastKnownWrites
               /\ \A s \in DOMAIN saved.values \cup DOMAIN prev.values :
                      ValueOf(saved, s) = ValueOf(prev, s)
               /\ DOMAIN new.values = {"r0", "r1", "r2", "r3", "r4", "r5", "r6", "r7",
                                       "r8", "r9", "r10"}
               /\ \A r \in {"r1", "r2", "r3", "r4", "r5"} :
                      /\ ValueOf(new, r) = ValueOf(prev, r)
                      /\ new.values[r].effect = "READ"
               /\ \A r \in {"r0", "r6", "r7", "r8", "r9"} :
                      new.values[r] = Value("", "WRITE")
               /\ new.values["r10"].value = "fp-0"

C22_Witness ==
    /\ Len(lines) = 3
    /\ lines[1].raw = "0: (b7) r1 = 13 ; R1_w=13"
    /\ lines[2].raw = "4: (63) *(u32 *)(r10 -64) = r1 ; R1=scalar() fp-64=scalar()"
    /\ lines[3].raw = "5: (85) call pc+3"
    /\ "fp-64" \in DOMAIN StateAt(1).values
    /\ "fp-64" \notin DOMAIN StateAt(2).values
    /\ StateAt(2).frame = 1
    /\ Len(SAVED_BPF_STATES) = 1
    /\ ValueOf(StateAt(2), "r1") = "scalar()"

\* C23: the transition for a line of jump kind EXIT taken with a saved
\* frame on the stack pops that frame (the copy a call made of its pre-call
\* state): the new state has the saved frame depth and the saved value of
\* every slot other than r0..r5 (r6..r9, r10 and the stack slots); r0 has
\* the exiting state's r0 value; r1..r5 are unknown and have no recorded
\* last writer.
C23_ExitPopsSavedFrame ==
    [][(/\ LoadsLine
        /\ lines'[Len(lines')].bpfIns.jmp.kind = "EXIT"
        /\ SAVED_BPF_STATES # <<>>)
       => LET saved   == heap[SAVED_BPF_STATES[Len(SAVED_BPF_STATES)]]
              exiting == IF bpfStates = <<>> THEN initialBpfState
                         ELSE heap[bpfStates[Len(bpfStates)]]
              new     == heap'[bpfStates'[Len(bpfStates')]]
          IN  /\ SAVED_BPF_STATES' = SubSeq(SAVED_BPF_STATES, 1, Len(SAVED_BPF_STATES) - 1)
              /\ new.frame = saved.frame
              /\ \A s \in (DOMAIN saved.values \cup DOMAIN new.values)
                          \ {"r0", "r1", "r2", "r3", "r4", "r5"} :
                     ValueOf(new, s) = ValueOf(saved, s)
              /\ ValueOf(new, "r0") = ValueOf(exiting, "r0")
              /\ \A r \in {"r1", "r2", "r3", "r4", "r5"} :
                     /\ ValueOf(new, r) = ""
                     /\ r \notin DOMAIN new.lastKnownWrites
              /\ LET n == Len(lines)
                     kinds(a, b, kind) ==
                         Cardinality({k \in a..b : lines[k].bpfIns.jmp.kind = kind})
                     matching == {m \in 1..n :
                                     /\ lines[m].bpfIns.jmp.kind = "BPF2BPF_CALL"
                                     /\ kinds(m + 1, n, "BPF2BPF_CALL")
                                            = kinds(m + 1, n, "EXIT")}
                     call == CHOOSE m \in matching : \A k \in matching : k <= m
                     before == IF call = 1 THEN initialBpfState
                               ELSE heap[bpfStates[call - 1]]
                 IN  matching # {}
                     => /\ new.frame = before.frame
                        /\ \A s \in (DOMAIN before.values \cup DOMAIN new.values)
                                    \ {"r0", "r1", "r2", "r3", "r4", "r5"} :
                               ValueOf(new, s) = ValueOf(before, s)]_vars

C23_Witness ==
    /\ Len(rawInput) = 4
    /\ Len(lines) = 4
    /\ lines[1].raw = "6: (7b) *(u64 *)(r10 -8) = r6 ; R6=13 fp-8=13"
    /\ lines[2].bpfIns.jmp.kind = "BPF2BPF_CALL"
    /\ lines[3].raw = "1: (b7) r0 = 7 ; R0_w=7"
    /\ lines[4].bpfIns.jmp.kind = "EXIT"
    /\ StateAt(2).frame = 1
    /\ StateAt(3).frame = 0
    /\ ValueOf(StateAt(3), "r6") = "13"
    /\ ValueOf(StateAt(3), "fp-8") = "13"
    /\ ValueOf(StateAt(3), "r0") = "7"
    /\ ValueOf(StateAt(3), "r1") = ""
    /\ SAVED_BPF_STATES = <<>>

\* C24: when the slot selected on line i was last written by line i itself
\* as an UPDATE, the dependency list the query returns holds only line
\* indices strictly smaller than i, never i itself.
C24_NoSelfDependency ==
    \A i \in 0..(Len(lines) - 1) :
        \A s \in ShownSlots(i) :
            (/\ MapGet(StateAt(i).values, s, NullValue).effect = "UPDATE"
             /\ MapGet(StateAt(i).lastKnownWrites, s, Undefined) = i
             /\ ~collectMemSlotDependencies(lines, States, i, s).threw)
            => \A k \in Range(collectMemSlotDependencies(lines, States, i, s).deps) :
                   k < i

\* C25: once the load operations started so far (files selected one after
\* another, texts pasted or fetched) have finished, state.lines and
\* state.bpfStates have the same length, lines[i].idx = i, and bpfStates[i]
\* is the state a new session computes for lines[i] of this log.
C25_LinesAndStatesAligned ==
    (/\ loading.status # "reading"
     /\ \A k \in 1..Len(others) : others[k].done)
    => /\ Len(lines) = Len(bpfStates)
       /\ \A i \in 0..(Len(lines) - 1) : lines[i + 1].idx = i
       /\ \A i \in 1..Len(lines) :
              i <= Len(bpfStates) => heap[bpfStates[i]] = FreshStates(lines)[i]

\* C26: when a file is selected while the load of an earlier file is still
\* in progress, the lines of the two files are not interleaved: a step of
\* the earlier loadInputFile invocation adds nothing to state.lines, which
\* holds lines of the file selected last only.
C26_NoInterleaving ==
    [][(/\ Len(others') = Len(others)
        /\ others' # others)
       => lines' = lines]_vars

\* C27: the dependency walk comes to an end for every line of lines and
\* every slot shown on it: no (line, slot) pair is visited twice, so the
\* recursion of memSlotDependencies is never deeper than the number of
\* such pairs.
C27_WalkTerminates ==
    \A i \in 0..(Len(lines) - 1) :
        \A s \in ShownSlots(i) :
            i < Len(bpfStates)
            => ~collectMemSlotDependencies(lines, States, i, s).diverged

\* C28: while the lines of one log are processed in a session that started
\* with an empty saved-frame stack (no replay has left frames behind), the
\* frame depth of the current state equals the number of states on the
\* saved-frame stack and is not negative, whatever the order of calls,
\* exits, other instructions and unrecognized lines.
C28_FrameDepthIsStackDepth ==
    Len(rawInput) = Len(lines)
    => LET current == IF bpfStates = <<>> THEN initialBpfState
                      ELSE heap[bpfStates[Len(bpfStates)]]
       IN  /\ current.frame = Len(SAVED_BPF_STATES)
           /\ current.frame >= 0

C28_Witness ==
    /\ Len(rawInput) = 4
    /\ Len(lines) = 4
    /\ lines[1].bpfIns.jmp.kind = "BPF2BPF_CALL"
    /\ lines[2].bpfIns.jmp.kind = "BPF2BPF_CALL"
    /\ lines[3].bpfIns.jmp.kind = "EXIT"
    /\ lines[4].type = "UNRECOGNIZED"
    /\ StateAt(1).frame = 2
    /\ StateAt(3).frame = 1
    /\ Len(SAVED_BPF_STATES) = 1

\* C29: in the state recorded for line i, every defined entry
\* lastKnownWrites[s] = j has j <= i, and either line j is an instruction
\* line whose writes hold s, or j = 0 and s is r1 or r10 (the entries of
\* the initial state).
C29_LastWriterIsEarlierWriter ==
    \A i \in {k \in 0..(Len(lines) - 1) : k < Len(bpfStates)} :
        \A s \in DOMAIN StateAt(i).lastKnownWrites :
            LET j == StateAt(i).lastKnownWrites[s]
            IN  j # Undefined
                => /\ j <= i
                   /\ \/ /\ j < Len(lines)
                         /\ lines[j + 1].type = "INSTRUCTION"
                         /\ s \in Range(lines[j + 1].bpfIns.writes)
                      \/ /\ j = 0
                         /\ s \in {"r1", "r10"}

\* C30: in the state recorded for line i of a log whose lines up to i are
\* instruction lines other than calls and exits, every slot with a defined
\* last writer has a (non-null) entry in the value map.
C30_WrittenSlotsHaveValues ==
    \A i \in 0..(Len(lines) - 1) :
        (\A k \in 1..(i + 1) :
             /\ lines[k].type = "INSTRUCTION"
             /\ lines[k].bpfIns.jmp.kind \notin {"BPF2BPF_CALL", "EXIT"})
        => \A s \in DOMAIN StateAt(i).lastKnownWrites :
               StateAt(i).lastKnownWrites[s] # Undefined
               => ~MapGet(StateAt(i).values, s, NullValue).isNull

====
